---- MODULE Spec2Model ----
(***************************************************************************)
(* razorbill: content aggregation (crates/razorbill/src/content), the      *)
(* heading pass and table of contents of the Markdown compiler, the        *)
(* shortcode pipeline with Site::render_to, the parsing of file paths,     *)
(* the reading metrics, and the element writer of the Markdown compiler.   *)
(* Each part has its own variables and its own specifications; the         *)
(* variable scenario names the inputs a specification draws from.          *)
(*                                                                         *)
(* In the aggregator:                                                      *)
(* Paths are sequences of path components taken relative to the content    *)
(* root: <<>> is the content root directory, <<97, 98>> is content/a/b,    *)
(* <<97, IndexMd>> is content/a/_index.md and <<97, 112>> is content/a/p.md.*)
(* A component is the character code of a one-letter name, so that route   *)
(* strings can be compared byte by byte as Rust's String::cmp does.        *)
(* Option<T> is a sequence of length 0 (None) or 1 (Some).                 *)
(***************************************************************************)
EXTENDS Integers, Sequences, FiniteSets, TLC

VARIABLES
    scenario,    \* which inputs the callers draw records from
    sections,    \* ContentAggregator.sections, by index file path
    pages,       \* ContentAggregator.pages, by file path
    taxonomies,  \* ContentAggregator.taxonomies: name -> term -> page keys
    status,      \* "building", or how aggregate ended: "done", "panicked"
    iter_order,  \* the order in which aggregate iterated the page map
    elements,    \* markdown(): the top-level elements the heading pass has visited
    headings,    \* HeadingIdentifier.headings
    heading_id_counts,  \* HeadingIdentifier.heading_id_counts
    table_of_contents,  \* markdown(): the TableOfContents returned
    pass,        \* markdown(): "visiting" the elements, then "done"
    site_sections,  \* Site.sections: raw_content and compiled content
    site_pages,     \* Site.pages: raw_content and compiled content
    site_status,    \* "loaded", or how render_to ended: "rendered", "panicked"
    args,        \* the arguments of FileInfo::new and Page::parse
    file,        \* what FileInfo::new(root_path, path) returned, if called
    parsed_page,  \* what Page::parse returned, if called
    metrics_call,  \* the arguments of ReadingMetrics::for_content and the build
    metrics,     \* what for_content returned, if called, or that it panicked
    writer,      \* the HtmlElementWriter
    events,      \* the events run() has taken from its input so far
    writer_status  \* "idle", run() "running", "returned" or "panicked"

aggregator_vars == <<sections, pages, taxonomies, status, iter_order>>

markdown_vars ==
    <<elements, headings, heading_id_counts, table_of_contents, pass>>

site_vars == <<site_sections, site_pages, site_status>>

parse_vars == <<args, file, parsed_page>>

metrics_vars == <<metrics_call, metrics>>

writer_vars == <<writer, events, writer_status>>

vars ==
    <<scenario, aggregator_vars, markdown_vars, site_vars, parse_vars,
      metrics_vars, writer_vars>>

(***************************************************************************)
(* Bounds of the model.                                                    *)
(***************************************************************************)
MaxPages == 3
MaxDate == 2
MaxBucket == 2

(***************************************************************************)
(* Path helpers (std::path).                                               *)
(***************************************************************************)
\* the file name "_index.md", as one component
IndexMd == 95
\* the separator '/' of a route string
Slash == 47

\* Path::parent of a path with at least one component
Parent(path) == SubSeq(path, 1, Len(path) - 1)

\* PathBuf::join(dir, "_index.md")
JoinIndex(dir) == Append(dir, IndexMd)

\* The directory above the content root: the site loader only ever adds
\* files found under the content root, so no record lives at or above it.
AboveRoot == <<0>>

\* path.parent().unwrap().parent() of an index path, then .join("_index.md"):
\* the index path one directory up.  From the content root's index this is
\* the index of the directory that holds the content root.
UpIndex(index_path) ==
    LET dir == Parent(index_path)
    IN  IF dir = <<>> THEN JoinIndex(AboveRoot) ELSE JoinIndex(Parent(dir))

\* FileInfo::new(root, path): path, parent and the components between the
\* root and the file name.
FileInfo(path) ==
    [path |-> path, parent |-> Parent(path), components |-> Parent(path)]

RECURSIVE JoinSlash(_)
\* a relative directory as a string: its components joined with '/'
JoinSlash(dir) ==
    IF Len(dir) = 0 THEN <<>>
    ELSE IF Len(dir) = 1 THEN dir
    ELSE JoinSlash(Parent(dir)) \o <<Slash, dir[Len(dir)]>>

\* PagePath::from_file_path: "/" + parent + "/" + stem, parent omitted when
\* the file sits directly in the content root.
PagePath(path) ==
    LET parent == JoinSlash(Parent(path))
        slug == path[Len(path)]
    IN  IF parent = <<>> THEN <<Slash, slug>>
        ELSE <<Slash>> \o parent \o <<Slash, slug>>

RECURSIVE StrLess(_, _)
\* String::cmp(a, b) = Less: byte-wise lexicographic order
StrLess(a, b) ==
    IF Len(b) = 0 THEN FALSE
    ELSE IF Len(a) = 0 THEN TRUE
    ELSE IF a[1] # b[1] THEN a[1] < b[1]
    ELSE StrLess(Tail(a), Tail(b))

(***************************************************************************)
(* Records.                                                                *)
(***************************************************************************)
\* Section as built by Section::parse: an empty child list.
Section(dir, transparent, sort_by, page_template) ==
    [file |-> FileInfo(JoinIndex(dir)),
     meta |-> [transparent |-> transparent, sort_by |-> sort_by,
               page_template |-> page_template],
     pages |-> <<>>]

\* Page as built by Page::parse: no ancestors yet.
Page(path, date, template, page_taxonomies) ==
    [file |-> FileInfo(path),
     meta |-> [date |-> date, template |-> template,
               taxonomies |-> page_taxonomies],
     path |-> PagePath(path),
     ancestors |-> <<>>]

EmptyMap == [k \in {} |-> k]

\* MapInsert keeping the record already stored under the key
MapInsertIfAbsent(map, key, value) ==
    [k \in DOMAIN map \cup {key} |-> IF k \in DOMAIN map THEN map[k] ELSE value]

\* HashMap::insert: the value stored under the key is replaced.
MapInsert(map, key, value) ==
    [k \in DOMAIN map \cup {key} |-> IF k = key THEN value ELSE map[k]]

(***************************************************************************)
(* Inputs of each scenario.                                                *)
(***************************************************************************)
Dirs ==
    CASE scenario = "tree" -> {<<>>, <<97>>, <<97, 98>>}
      [] scenario = "sort" -> {<<>>, <<97>>}
      [] OTHER -> {<<>>}

\* the page files p.md and q.md of each scenario
PagePathInputs ==
    CASE scenario = "tree" ->
            {<<112>>, <<97, 112>>, <<97, 98, 112>>, <<97, 98, 113>>}
      [] scenario = "sort" -> {<<112>>, <<97, 112>>, <<97, 113>>}
      [] OTHER -> {<<112>>, <<113>>}

PageTemplateName(dir) == <<"root.html", "a.html", "b.html">>[Len(dir) + 1]

SortKeys == IF scenario = "tree" THEN {"None"} ELSE {"None", "Date"}

SectionInputs ==
    {Section(d, tr, sb, IF pt THEN <<PageTemplateName(d)>> ELSE <<>>) :
        d \in Dirs,
        tr \in (IF scenario = "tax" THEN {FALSE} ELSE BOOLEAN),
        sb \in SortKeys,
        pt \in (IF scenario = "tree" THEN BOOLEAN ELSE {FALSE})}

Dates ==
    IF scenario = "tree" THEN {<<>>}
    ELSE {<<>>} \cup {<<d>> : d \in 1..MaxDate}

TaxonomyInputs ==
    IF scenario = "tax"
    THEN {EmptyMap,
          [t \in {"tags"} |-> <<"x">>],
          [t \in {"tags"} |-> <<"y">>],
          [t \in {"tags"} |-> <<"x", "x">>],
          [t \in {"series"} |-> <<"x">>]}
    ELSE {EmptyMap}

PageInputs ==
    {Page(path, dt, tm, tx) :
        path \in PagePathInputs, dt \in Dates,
        tm \in (IF scenario = "tree" THEN {<<>>, <<"own.html">>} ELSE {<<>>}),
        tx \in TaxonomyInputs}

\* the taxonomy definitions handed to ContentAggregator::new
TaxonomyDefinitions == {"tags"}

(***************************************************************************)
(* ContentAggregator::new, add_section, add_page.                          *)
(***************************************************************************)
Scenarios == {"tree", "sort", "tax"}

\* ContentAggregator::new: empty maps, one empty term map per configured
\* taxonomy.
NewAggregator ==
    /\ sections = EmptyMap
    /\ pages = EmptyMap
    /\ taxonomies = [t \in TaxonomyDefinitions |-> EmptyMap]
    /\ status = "building"
    /\ iter_order = <<>>

\* markdown() before the heading pass: HeadingIdentifier::new, nothing
\* visited yet.
NewHeadingIdentifier ==
    /\ elements = <<>>
    /\ headings = <<>>
    /\ heading_id_counts = EmptyMap
    /\ table_of_contents = <<>>
    /\ pass = "visiting"

\* nothing is being parsed
NoFile ==
    /\ args = [root_path |-> <<>>, path |-> <<>>, slug |-> <<>>]
    /\ file = <<>>
    /\ parsed_page = <<>>

\* nothing is being measured
NoContent ==
    /\ metrics_call = [content |-> <<>>, wpm |-> 0, overflow_checks |-> FALSE]
    /\ metrics = <<>>

\* HtmlElementWriter::new
HtmlElementWriterNew ==
    [elements |-> <<>>, current_element_stack |-> <<>>,
     table_state |-> "Head", table_alignments |-> <<>>,
     table_cell_index |-> 0, footnotes |-> EmptyMap]

\* no HtmlElementWriter is running
NoWriter ==
    /\ writer = HtmlElementWriterNew
    /\ events = <<>>
    /\ writer_status = "idle"

\* a Site without content
EmptySite ==
    /\ site_sections = EmptyMap
    /\ site_pages = EmptyMap
    /\ site_status = "loaded"

Init ==
    /\ scenario \in Scenarios
    /\ NewAggregator /\ NewHeadingIdentifier /\ EmptySite /\ NoFile
    /\ NoContent /\ NoWriter

InitTree ==
    /\ scenario = "tree"
    /\ NewAggregator /\ NewHeadingIdentifier /\ EmptySite /\ NoFile
    /\ NoContent /\ NoWriter

InitSort ==
    /\ scenario = "sort"
    /\ NewAggregator /\ NewHeadingIdentifier /\ EmptySite /\ NoFile
    /\ NoContent /\ NoWriter

InitTax ==
    /\ scenario = "tax"
    /\ NewAggregator /\ NewHeadingIdentifier /\ EmptySite /\ NoFile
    /\ NoContent /\ NoWriter

\* pages_by_term.entry(term).or_default().push(path)
PushTerm(pages_by_term, term, path) ==
    MapInsert(pages_by_term, term,
              IF term \in DOMAIN pages_by_term
              THEN Append(pages_by_term[term], path)
              ELSE <<path>>)

RECURSIVE PushTerms(_, _, _)
\* for term in terms { ... push ... }
PushTerms(pages_by_term, terms, path) ==
    IF terms = <<>> THEN pages_by_term
    ELSE PushTerms(PushTerm(pages_by_term, Head(terms), path), Tail(terms), path)

\* The taxonomy index after add_page's loop over the page's taxonomies; a
\* name that is not configured is skipped.  Each name has its own term map,
\* so the order in which the page's taxonomies are visited has no effect.
\* records the terms of every taxonomy name the page declares, configured
\* or not
IndexPageAnyName(index, page) ==
    [t \in DOMAIN index \cup DOMAIN page.meta.taxonomies |->
        IF t \in DOMAIN page.meta.taxonomies
        THEN PushTerms(IF t \in DOMAIN index THEN index[t] ELSE EmptyMap,
                       page.meta.taxonomies[t], page.file.path)
        ELSE index[t]]

IndexPage(index, page) ==
    [t \in DOMAIN index |->
        IF t \in DOMAIN page.meta.taxonomies
        THEN PushTerms(index[t], page.meta.taxonomies[t], page.file.path)
        ELSE index[t]]

\* the number of page keys held by the taxonomy index
RECURSIVE SumLen(_, _)
SumLen(map, keys) ==
    IF keys = {} THEN 0
    ELSE LET k == CHOOSE x \in keys : TRUE
         IN  Len(map[k]) + SumLen(map, keys \ {k})

RECURSIVE IndexSize(_, _)
IndexSize(index, names) ==
    IF names = {} THEN 0
    ELSE LET t == CHOOSE x \in names : TRUE
         IN  SumLen(index[t], DOMAIN index[t]) + IndexSize(index, names \ {t})

add_section(section) ==
    /\ status = "building"
    /\ sections' = MapInsert(sections, section.file.path, section)
    /\ UNCHANGED <<scenario, pages, taxonomies, status, iter_order>>
    /\ UNCHANGED <<markdown_vars, site_vars, parse_vars, metrics_vars,
                 writer_vars>>

\* The two bounds keep the page map and the taxonomy index finite.
add_page(page) ==
    /\ status = "building"
    /\ taxonomies' = IndexPage(taxonomies, page)
    /\ pages' = MapInsert(pages, page.file.path, page)
    /\ Cardinality(DOMAIN pages') <= MaxPages
    /\ IndexSize(taxonomies', DOMAIN taxonomies') <= MaxBucket
    /\ UNCHANGED <<scenario, sections, status, iter_order>>
    /\ UNCHANGED <<markdown_vars, site_vars, parse_vars, metrics_vars,
                 writer_vars>>

(***************************************************************************)
(* sort_pages_by (content/sorting.rs).                                     *)
(***************************************************************************)
\* SortsBefore with the dates compared oldest first
SortsBeforeAscending(a, b) ==
    LET a_date == a.meta.date[1]
        b_date == b.meta.date[1]
    IN  IF b_date # a_date THEN a_date < b_date
        ELSE StrLess(a.path, b.path)

\* The comparator handed to sort_unstable_by, as "a sorts before b":
\* b_date.cmp(a_date), then a.path.cmp(b.path) when the dates are equal.
\* Dates are the strings toml's Datetime prints; a date is modelled by a
\* number whose order is the order of those strings.
SortsBefore(a, b) ==
    LET a_date == a.meta.date[1]
        b_date == b.meta.date[1]
    IN  IF b_date # a_date THEN b_date < a_date
        ELSE StrLess(a.path, b.path)

RECURSIVE InsertSorted(_, _)
InsertSorted(sorted, page) ==
    IF sorted = <<>> THEN <<page>>
    ELSE IF SortsBefore(page, Head(sorted)) THEN <<page>> \o sorted
    ELSE <<Head(sorted)>> \o InsertSorted(Tail(sorted), page)

RECURSIVE SortUnstableBy(_)
\* sortable.sort_unstable_by(...): two records that compare Equal have the
\* same route, hence the same file path, so every sort yields the same keys.
SortUnstableBy(list) ==
    IF list = <<>> THEN <<>>
    ELSE InsertSorted(SortUnstableBy(Tail(list)), Head(list))

\* page.meta.date.is_some(), the partition predicate for SortBy::Date
IsSortable(page) == page.meta.date # <<>>

IsNotSortable(page) == ~IsSortable(page)

\* .iter().map(|page| page.file.path.clone()).collect()
FilePaths(list) == [i \in 1..Len(list) |-> list[i].file.path]

\* sort_pages_by(SortBy::Date, pages): (sorted keys, keys that cannot be sorted)
sort_pages_by(list) ==
    <<FilePaths(SortUnstableBy(SelectSeq(list, IsSortable))),
      FilePaths(SelectSeq(list, IsNotSortable))>>

\* Reordered with the two parts swapped
ReorderedUnsortedFirst(pair) == pair[2] \o pair[1]

\* reordered_pages = sorted_pages; reordered_pages.extend(unsorted_pages)
Reordered(pair) == pair[1] \o pair[2]

\* the records behind a list of keys: .map(|path| &self.pages[path])
Lookup(pgs, keys) == [i \in 1..Len(keys) |-> pgs[keys[i]]]

(***************************************************************************)
(* ContentAggregator::build_ancestors.                                     *)
(***************************************************************************)
RECURSIVE AncestorScan(_, _, _)
\* the loop over section.file.components, from the i-th component on
AncestorScan(secs, section, i) ==
    IF i > Len(section.file.components) THEN <<>>
    ELSE LET current_path == SubSeq(section.file.components, 1, i)
             rest == AncestorScan(secs, section, i + 1)
         IN  IF current_path = section.file.parent THEN rest
             ELSE IF JoinIndex(current_path) \in DOMAIN secs
                  THEN <<secs[JoinIndex(current_path)].file.path>> \o rest
                  ELSE rest

\* The ancestor list of one section.  The content root's index path opens
\* the list of every section below the root, whether or not the section map
\* holds a section under it.
SectionAncestors(secs, section) ==
    IF section.file.components = <<>> THEN <<>>
    ELSE <<JoinIndex(<<>>)>> \o AncestorScan(secs, section, 1)

\* One entry per section; the entries do not depend on one another, so the
\* order in which the map is iterated has no effect.
build_ancestors(secs) ==
    [k \in DOMAIN secs |-> SectionAncestors(secs, secs[k])]

(***************************************************************************)
(* ContentAggregator::aggregate.                                           *)
(***************************************************************************)
RECURSIVE TemplateScanFromRoot(_, _, _)
\* TemplateScan without the .rev(): the section nearest to the root that
\* sets a page_template supplies it
TemplateScanFromRoot(secs, ancestors, i) ==
    LET j == Len(ancestors) - i + 1
    IN  IF i = 0 THEN [panicked |-> FALSE, template |-> <<>>]
        ELSE IF ancestors[j] \notin DOMAIN secs
             THEN [panicked |-> TRUE, template |-> <<>>]
        ELSE IF secs[ancestors[j]].meta.page_template # <<>>
             THEN [panicked |-> FALSE,
                   template |-> secs[ancestors[j]].meta.page_template]
        ELSE TemplateScanFromRoot(secs, ancestors, i - 1)

RECURSIVE TemplateScan(_, _, _)
\* for ancestor in page.ancestors.iter().rev(): the nearest section with a
\* page_template supplies it; self.sections.get(ancestor).unwrap() panics
\* on a key the section map does not hold.
TemplateScan(secs, ancestors, i) ==
    IF i = 0 THEN [panicked |-> FALSE, template |-> <<>>]
    ELSE IF ancestors[i] \notin DOMAIN secs
         THEN [panicked |-> TRUE, template |-> <<>>]
    ELSE IF secs[ancestors[i]].meta.page_template # <<>>
         THEN [panicked |-> FALSE,
               template |-> secs[ancestors[i]].meta.page_template]
    ELSE TemplateScan(secs, ancestors, i - 1)

\* WalkStops with the break lost: the walk climbs through every section.
WalkNeverStops(parent_section) == FALSE

\* if !is_transparent { break; }
WalkStops(parent_section) == ~parent_section.meta.transparent

RECURSIVE NearestIndex(_)
NearestIndex(dir) ==
    IF JoinIndex(dir) \in DOMAIN sections \/ dir = <<>> THEN JoinIndex(dir)
    ELSE NearestIndex(Parent(dir))

\* FirstIndexPath searching upwards for the nearest directory with an index
FirstIndexPathNearest(page) == NearestIndex(page.file.parent)

\* let mut parent_section_path = page.file.parent.join("_index.md")
FirstIndexPath(page) == JoinIndex(page.file.parent)

RECURSIVE WalkPage(_, _, _, _)
\* The while-let loop of one page, from parent_section_path on.  st holds
\* the section map, the page map and whether an unwrap has panicked.
WalkPage(st, table, key, parent_section_path) ==
    IF parent_section_path \notin DOMAIN st.sections THEN st
    ELSE
      LET parent_section == st.sections[parent_section_path]
          secs == [st.sections EXCEPT
                      ![parent_section_path].pages = Append(@, key)]
          ancestors ==
              (IF parent_section_path \in DOMAIN table
               THEN table[parent_section_path] ELSE <<>>)
              \o <<parent_section.file.path>>
          page == st.pages[key]
          scan == IF page.meta.template = <<>>
                  THEN TemplateScan(secs, ancestors, Len(ancestors))
                  ELSE [panicked |-> FALSE, template |-> page.meta.template]
          next == [sections |-> secs,
                   pages |-> [st.pages EXCEPT
                                 ![key].ancestors = ancestors,
                                 ![key].meta.template = scan.template],
                   panicked |-> scan.panicked]
      IN  IF scan.panicked THEN next
          ELSE IF WalkStops(parent_section) THEN next
          ELSE WalkPage(next, table, key, UpIndex(parent_section_path))

RECURSIVE PlacePages(_, _, _, _)
\* for (path, page) in self.pages.iter_mut(), visiting the keys as listed
\* in order (the iteration order of the HashMap), from the i-th on
PlacePages(st, table, order, i) ==
    IF i > Len(order) \/ st.panicked THEN st
    ELSE PlacePages(
             WalkPage(st, table, order[i], FirstIndexPath(st.pages[order[i]])),
             table, order, i + 1)

\* SortSections reordering every child list by date, sort key or not
SortSectionsAlways(secs, pgs) ==
    [k \in DOMAIN secs |->
        [secs[k] EXCEPT !.pages = Reordered(sort_pages_by(Lookup(pgs, @)))]]

\* The per-section sort: a section without a sort key is left alone.  Each
\* section is reordered on its own, so the iteration order has no effect.
SortSections(secs, pgs) ==
    [k \in DOMAIN secs |->
        IF secs[k].meta.sort_by = "None" THEN secs[k]
        ELSE [secs[k] EXCEPT
                 !.pages = Reordered(sort_pages_by(Lookup(pgs, @)))]]

\* The per-term sort of the taxonomy index, always by date.
SortTaxonomies(index, pgs) ==
    [t \in DOMAIN index |->
        [term \in DOMAIN index[t] |->
            Reordered(sort_pages_by(Lookup(pgs, index[t][term])))]]

\* What aggregate returns for one iteration order of the page map, or that
\* it panicked.
AggregateOutcome(secs, pgs, index, order) ==
    LET table == build_ancestors(secs)
        placed == PlacePages(
                      [sections |-> secs, pages |-> pgs, panicked |-> FALSE],
                      table, order, 1)
    IN  IF placed.panicked
        THEN [panicked |-> TRUE, sections |-> secs, pages |-> pgs,
              taxonomies |-> index]
        ELSE [panicked |-> FALSE,
              sections |-> SortSections(placed.sections, placed.pages),
              pages |-> placed.pages,
              taxonomies |-> SortTaxonomies(index, placed.pages)]

\* the orders in which a HashMap with these keys can be iterated
Orders(keys) ==
    {o \in [1..Cardinality(keys) -> keys] :
        \A i, j \in 1..Cardinality(keys) : i # j => o[i] # o[j]}

\* aggregate(self) consumes the aggregator: nothing can be added afterwards.
\* A panic returns nothing.
aggregate(order) ==
    /\ status = "building"
    /\ \E out \in {AggregateOutcome(sections, pages, taxonomies, order)} :
           /\ status' = IF out.panicked THEN "panicked" ELSE "done"
           /\ sections' = out.sections
           /\ pages' = out.pages
           /\ taxonomies' = out.taxonomies
    /\ iter_order' = order
    /\ UNCHANGED <<scenario, markdown_vars, site_vars, parse_vars,
                 metrics_vars, writer_vars>>

Next ==
    \/ \E section \in SectionInputs : add_section(section)
    \/ \E page \in PageInputs : add_page(page)
    \/ \E order \in Orders(DOMAIN pages) : aggregate(order)

Spec == Init /\ [][Next]_vars

SpecTree == InitTree /\ [][Next]_vars

SpecSort == InitSort /\ [][Next]_vars

SpecTax == InitTax /\ [][Next]_vars

(***************************************************************************)
(* markdown(): the heading-identifier pass and the table of contents       *)
(* (crates/razorbill/src/markdown.rs).                                     *)
(*                                                                         *)
(* A string is the sequence of its character codes.  A heading element is  *)
(* [tag_name, attrs, children], attrs a map from attribute names to        *)
(* strings and children the text nodes below the element in depth-first    *)
(* order, as the element writer left them (HTML-escaped).                  *)
(***************************************************************************)
MaxHeadings == 3
MaxTocHeadings == 5

\* '-' and '0'
Dash == 45
Zero == 48
\* "&quot;", what escaping leaves of a double quote
Quot == <<38, 113, 117, 111, 116, 59>>

\* str::replace(pattern, "")
RECURSIVE Remove(_, _)
Remove(s, pattern) ==
    IF Len(s) < Len(pattern) THEN s
    ELSE IF SubSeq(s, 1, Len(pattern)) = pattern
         THEN Remove(SubSeq(s, Len(pattern) + 1, Len(s)), pattern)
         ELSE <<Head(s)>> \o Remove(Tail(s), pattern)

\* slug::slugify on ASCII text: letters and digits are kept, upper case
\* lowered; every run of other characters becomes one '-', none at the
\* start, and one trailing '-' is popped.
RECURSIVE SlugScan(_, _, _, _)
SlugScan(s, i, prev_is_dash, slug) ==
    IF i > Len(s) THEN slug
    ELSE LET x == s[i]
         IN  IF (97 <= x /\ x <= 122) \/ (48 <= x /\ x <= 57)
             THEN SlugScan(s, i + 1, FALSE, Append(slug, x))
             ELSE IF 65 <= x /\ x <= 90
             THEN SlugScan(s, i + 1, FALSE, Append(slug, x - 65 + 97))
             ELSE IF ~prev_is_dash
             THEN SlugScan(s, i + 1, TRUE, Append(slug, Dash))
             ELSE SlugScan(s, i + 1, TRUE, slug)

slugify(s) ==
    LET string == SlugScan(s, 1, TRUE, <<>>)
    IN  IF Len(string) > 0 /\ string[Len(string)] = Dash
        THEN SubSeq(string, 1, Len(string) - 1)
        ELSE string

\* usize::to_string
RECURSIVE to_string(_)
to_string(n) ==
    IF n < 10 THEN <<Zero + n>>
    ELSE to_string(n \div 10) \o <<Zero + (n % 10)>>

\* visit_text over the text nodes of a heading: None when there is none,
\* else the concatenation
RECURSIVE Concat(_)
Concat(texts) ==
    IF texts = <<>> THEN <<>> ELSE Head(texts) \o Concat(Tail(texts))

Title(element) ==
    IF element.children = <<>> THEN <<>> ELSE <<Concat(element.children)>>

HeadingTags == {"h2", "h3", "h4", "h5", "h6"}

Level(tag_name) ==
    CASE tag_name = "h2" -> 2
      [] tag_name = "h3" -> 3
      [] tag_name = "h4" -> 4
      [] tag_name = "h5" -> 5
      [] tag_name = "h6" -> 6

\* the count of line 329: entry(id).or_insert(0)
IdCount(counts, id) == IF id \in DOMAIN counts THEN counts[id] ELSE 0

\* the id of lines 322-333: the slug, with "-<count>" after the first use
SuffixedIdFromOne(slug, id_count) ==
    IF id_count > 0 THEN slug \o <<Dash>> \o to_string(id_count + 1) ELSE slug

SuffixedId(slug, id_count) ==
    IF id_count > 0 THEN slug \o <<Dash>> \o to_string(id_count) ELSE slug

\* lines 337-339: an id attribute that is present is kept
WithId(element, id) ==
    IF "id" \in DOMAIN element.attrs
    THEN element
    ELSE [element EXCEPT !.attrs = MapInsert(element.attrs, "id", id)]

Heading(level, id, title) ==
    [level |-> level, id |-> id, title |-> title, children |-> <<>>]

\* the elements markdown() hands to the pass
HeadingLevels ==
    IF scenario = "toc" THEN {"h2", "h3", "h4"} ELSE {"h1", "h2"}

HeadingTexts ==
    IF scenario = "toc"
    THEN {<< <<115>> >>}
    ELSE {<<>>,
          << <<83>> >>,
          << <<115>> >>,
          << <<83>>, <<32, 49>> >>,
          << <<83>> \o Quot >>}

HeadingAttrs ==
    IF scenario = "toc"
    THEN {EmptyMap}
    ELSE {EmptyMap, [a \in {"id"} |-> <<115>>]}

ElementInputs ==
    {[tag_name |-> t, attrs |-> a, children |-> c] :
        t \in HeadingLevels, a \in HeadingAttrs, c \in HeadingTexts}

HeadingsBound == IF scenario = "toc" THEN MaxTocHeadings ELSE MaxHeadings

\* HeadingIdentifier::visit of one top-level element of the document; the
\* bound keeps the document finite.
visit(element) ==
    /\ pass = "visiting"
    /\ Len(elements) < HeadingsBound
    /\ LET title == Title(element)
       IN  IF element.tag_name \in HeadingTags /\ title # <<>>
           THEN LET slug == slugify(Remove(title[1], Quot))
                    id_count == IdCount(heading_id_counts, slug)
                    id == SuffixedId(slug, id_count)
                IN  /\ heading_id_counts' =
                           MapInsert(heading_id_counts, slug, id_count + 1)
                    /\ elements' = Append(elements, WithId(element, id))
                    /\ headings' = Append(headings,
                           Heading(Level(element.tag_name),
                                   id, title[1]))
           ELSE /\ elements' = Append(elements, element)
                /\ UNCHANGED <<headings, heading_id_counts>>
    /\ UNCHANGED <<scenario, aggregator_vars, table_of_contents, pass,
                   site_vars, parse_vars, metrics_vars, writer_vars>>

\* line 268: the heading does not go below this parent
IsNotDeeperOrEqual(heading, parent) == heading.level < parent.level

IsNotDeeper(heading, parent) == heading.level <= parent.level

\* insert_into_parent(Some(parent), heading): whether the heading was put
\* below parent, and parent afterwards
RECURSIVE insert_into_parent(_, _)
insert_into_parent(parent, heading) ==
    IF IsNotDeeper(heading, parent)
    THEN [inserted |-> FALSE, parent |-> parent]
    ELSE IF heading.level + 1 = parent.level
    THEN [inserted |-> TRUE,
          parent |-> [parent EXCEPT !.children = Append(@, heading)]]
    ELSE LET n == Len(parent.children)
             below == IF n = 0
                      THEN [inserted |-> FALSE, parent |-> parent]
                      ELSE insert_into_parent(parent.children[n], heading)
         IN  IF below.inserted
             THEN [inserted |-> TRUE,
                   parent |-> [parent EXCEPT !.children[n] = below.parent]]
             ELSE [inserted |-> TRUE,
                   parent |-> [parent EXCEPT !.children = Append(@, heading)]]

\* the loop of TableOfContents::from_headings from heading i on
RECURSIVE FromHeadings(_, _, _)
FromHeadings(list, i, toc) ==
    IF i > Len(list) THEN toc
    ELSE LET n == Len(toc)
             below == IF n = 0
                      THEN [inserted |-> FALSE]
                      ELSE insert_into_parent(toc[n], list[i])
         IN  IF below.inserted
             THEN FromHeadings(list, i + 1, [toc EXCEPT ![n] = below.parent])
             ELSE FromHeadings(list, i + 1, Append(toc, list[i]))

\* the end of markdown(): the table of contents of the recorded headings
from_headings ==
    /\ pass = "visiting"
    /\ table_of_contents' = FromHeadings(headings, 1, <<>>)
    /\ pass' = "done"
    /\ UNCHANGED <<scenario, aggregator_vars, elements, headings,
                   heading_id_counts, site_vars, parse_vars, metrics_vars,
                   writer_vars>>

NextMarkdown ==
    \/ \E element \in ElementInputs : visit(element)
    \/ from_headings

InitIds ==
    /\ scenario = "ids"
    /\ NewAggregator /\ NewHeadingIdentifier /\ EmptySite /\ NoFile
    /\ NoContent /\ NoWriter

InitToc ==
    /\ scenario = "toc"
    /\ NewAggregator /\ NewHeadingIdentifier /\ EmptySite /\ NoFile
    /\ NoContent /\ NoWriter

SpecIds == InitIds /\ [][NextMarkdown]_vars

SpecToc == InitToc /\ [][NextMarkdown]_vars

(***************************************************************************)
(* Shortcodes (crates/razorbill/src/markdown/shortcodes.rs, parser.rs) and *)
(* the compilation of the documents of a site (Site::render_to).           *)
(*                                                                         *)
(* A document is the sequence of its pieces, a piece being a character, a  *)
(* whole shortcode call, a call that breaks off, or the placeholder token  *)
(* written out literally.  The text of a text node and the value of an     *)
(* attribute are sequences of pieces as well.  An element is a record      *)
(* [kind, text, tag_name, attrs, children]; kind is "Text" or "Html".      *)
(***************************************************************************)
MaxItems == 2

SHORTCODE_PLACEHOLDER == "@@RAZORBILL_SHORTCODE@@"
\* SHORTCODE_PLACEHOLDER.len()
PlaceholderLen == 23

\* the call expressions of the documents, and the names they call
CallNames ==
    [piece \in {"{{ hi() }}", "{{ yo() }}", "{{ no() }}"} |->
        CASE piece = "{{ hi() }}" -> "hi"
          [] piece = "{{ yo() }}" -> "yo"
          [] piece = "{{ no() }}" -> "no"]

\* a call expression that breaks off after its opening parenthesis
Malformed == "{{ hi("

\* str::len of a piece of the output text
ByteLen(piece) == IF piece = SHORTCODE_PLACEHOLDER THEN PlaceholderLen ELSE 1

\* OutputLen counting pieces, not bytes
OutputLenInPieces(output) == Len(output)

RECURSIVE OutputLen(_)
OutputLen(output) ==
    IF output = <<>> THEN 0
    ELSE ByteLen(Head(output)) + OutputLen(Tail(output))

ShortcodeCall(name, start) ==
    [name |-> name, args |-> EmptyMap,
     span |-> [start |-> start, end |-> start + PlaceholderLen]]

\* the loop of parse_document over the pairs of the parsed document
RECURSIVE ParsePairs(_, _, _, _)
ParsePairs(document, i, output, shortcode_calls) ==
    IF i > Len(document)
    THEN [err |-> FALSE, output |-> output,
          shortcode_calls |-> shortcode_calls]
    ELSE IF document[i] \in DOMAIN CallNames
    THEN ParsePairs(document, i + 1,
                    Append(output, SHORTCODE_PLACEHOLDER),
                    Append(shortcode_calls,
                           ShortcodeCall(CallNames[document[i]],
                                         OutputLen(output))))
    ELSE ParsePairs(document, i + 1, Append(output, document[i]),
                    shortcode_calls)

\* whether ShortcodeParser::parse accepts the document
Parses(document) ==
    \A i \in 1..Len(document) : document[i] # Malformed

parse_document(document) ==
    IF ~Parses(document)
    THEN [err |-> TRUE, output |-> <<>>, shortcode_calls |-> <<>>]
    ELSE ParsePairs(document, 1, <<>>, <<>>)

TextElement(text) ==
    [kind |-> "Text", text |-> text, tag_name |-> "", attrs |-> EmptyMap,
     children |-> <<>>]

HtmlElement(tag_name, attrs, children) ==
    [kind |-> "Html", text |-> <<>>, tag_name |-> tag_name, attrs |-> attrs,
     children |-> children]

\* escape_html on one character
escape_html(piece) == IF piece = "<" THEN "&lt;" ELSE piece

\* escape_href on one character: the characters of the model are all left
\* as they are but '<'
escape_href(piece) == IF piece = "<" THEN "%3C" ELSE piece

\* the least index from i on where the piece occurs, 0 when it does not
RECURSIVE IndexFrom(_, _, _)
IndexFrom(pieces, i, piece) ==
    IF i > Len(pieces) THEN 0
    ELSE IF pieces[i] = piece THEN i
    ELSE IndexFrom(pieces, i + 1, piece)

\* the children the element writer gives a paragraph or a link for the
\* inline text from piece i on: text runs, and a link element for each
\* [text](destination); text is the text run that is open
RECURSIVE Inlines(_, _, _, _)
Inlines(pieces, i, text, children) ==
    LET flushed == IF text = <<>> THEN children
                   ELSE Append(children, TextElement(text))
    IN  IF i > Len(pieces) THEN flushed
        ELSE IF pieces[i] = "["
        THEN LET close == IndexFrom(pieces, i, "]")
                 end == IndexFrom(pieces, close, ")")
                 dest == SubSeq(pieces, close + 2, end - 1)
                 link == HtmlElement("a",
                     [a \in {"href"} |->
                         [k \in 1..Len(dest) |-> escape_href(dest[k])]],
                     Inlines(SubSeq(pieces, i + 1, close - 1), 1, <<>>, <<>>))
             IN  Inlines(pieces, end + 1, <<>>, Append(flushed, link))
        ELSE Inlines(pieces, i + 1, Append(text, escape_html(pieces[i])),
                     children)

\* markdown() on the text of one paragraph
markdown(output) ==
    IF output = <<>> THEN <<>>
    ELSE <<HtmlElement("p", EmptyMap, Inlines(output, 1, <<>>, <<>>))>>

\* Site.shortcodes: the registered shortcodes, each rendering a text
Shortcodes ==
    [name \in {"hi", "yo"} |->
        IF name = "hi" THEN TextElement(<<"hi!">>)
        ELSE TextElement(<<"yo!">>)]

\* an unregistered name renders as an empty text
GetOrEmpty(name) ==
    IF name \in DOMAIN Shortcodes THEN <<Shortcodes[name]>>
    ELSE <<TextElement(<<>>)>>

\* shortcodes.get(&call.name)
Get(name) ==
    IF name \in DOMAIN Shortcodes THEN <<Shortcodes[name]>> ELSE <<>>

\* the while loop of replace_shortcodes over one text that holds the
\* placeholder; both unwraps panic on None
RECURSIVE SplitText(_, _, _)
SplitText(text, calls, new_elements) ==
    LET at == IndexFrom(text, 1, SHORTCODE_PLACEHOLDER)
    IN  IF at = 0
        THEN [panicked |-> FALSE, calls |-> calls,
              new_elements |-> IF text # <<>>
                               THEN Append(new_elements, TextElement(text))
                               ELSE new_elements]
        ELSE LET before == SubSeq(text, 1, at - 1)
                 after == SubSeq(text, at + 1, Len(text))
                 shortcode == IF calls = <<>> THEN <<>>
                              ELSE Get(Head(calls).name)
             IN  IF shortcode = <<>>
                 THEN [panicked |-> TRUE, calls |-> calls,
                       new_elements |-> Append(new_elements,
                                               TextElement(before))]
                 ELSE SplitText(after, Tail(calls),
                          new_elements \o <<TextElement(before),
                                            shortcode[1]>>)

\* the for loop of replace_shortcodes from child i on
RECURSIVE ReplaceFrom(_, _, _, _)
ReplaceFrom(children, i, calls, new_elements) ==
    IF i > Len(children)
    THEN [panicked |-> FALSE, calls |-> calls, new_elements |-> new_elements]
    ELSE LET child == children[i]
             step ==
                 IF child.kind = "Text"
                 THEN IF IndexFrom(child.text, 1, SHORTCODE_PLACEHOLDER) # 0
                      THEN SplitText(child.text, calls, new_elements)
                      ELSE [panicked |-> FALSE, calls |-> calls,
                            new_elements |-> Append(new_elements, child)]
                 ELSE LET inner == ReplaceFrom(child.children, 1, calls, <<>>)
                      IN  [panicked |-> inner.panicked, calls |-> inner.calls,
                           new_elements |-> Append(new_elements,
                               HtmlElement(child.tag_name, child.attrs,
                                           inner.new_elements))]
         IN  IF step.panicked THEN step
             ELSE ReplaceFrom(children, i + 1, step.calls, step.new_elements)

replace_shortcodes(children, calls) == ReplaceFrom(children, 1, calls, <<>>)

\* markdown_with_shortcodes: the elements, or a panic (the unwrap of the
\* parse result, or one inside replace_shortcodes)
markdown_with_shortcodes(input) ==
    LET parsed == parse_document(input)
    IN  IF parsed.err
        THEN [panicked |-> TRUE, elements |-> <<>>]
        ELSE LET replaced == replace_shortcodes(markdown(parsed.output),
                                                parsed.shortcode_calls)
             IN  [panicked |-> replaced.panicked,
                  elements |-> IF replaced.panicked THEN <<>>
                               ELSE replaced.new_elements]

\* the documents of a site
TextPieces == {"a", "<"}

LinkTexts == {<<"a">>, <<"{{ hi() }}">>}

LinkDestinations == {<<"a">>, <<"{{ yo() }}">>, <<"{{ no() }}">>}

Items ==
    {<<piece>> : piece \in TextPieces \cup DOMAIN CallNames
                              \cup {Malformed, SHORTCODE_PLACEHOLDER}}
    \cup {<<"[">> \o t \o <<"]", "(">> \o d \o <<")">> :
             t \in LinkTexts, d \in LinkDestinations}

RECURSIVE ItemSeqs(_)
ItemSeqs(n) ==
    IF n = 0 THEN {<<>>}
    ELSE LET shorter == ItemSeqs(n - 1)
         IN  shorter \cup {d \o item : d \in shorter, item \in Items}

Documents ==
    IF scenario = "shortcodes" THEN ItemSeqs(MaxItems)
    ELSE {<<"a">>, <<"{{ hi() }}">>, <<"{{ no() }}">>, <<Malformed>>}

SectionFiles == IF scenario = "shortcodes" THEN {} ELSE {"_index.md"}

PageFiles == IF scenario = "shortcodes" THEN {"p.md"} ELSE {"p.md", "q.md"}

Document(raw_content) == [raw_content |-> raw_content, content |-> <<>>]

\* a loaded Site: every document has its raw text and no content yet
LoadedSite ==
    /\ site_sections \in [SectionFiles -> {Document(d) : d \in Documents}]
    /\ site_pages \in [PageFiles -> {Document(d) : d \in Documents}]
    /\ site_status = "loaded"

Compiled(documents) ==
    [k \in DOMAIN documents |->
        markdown_with_shortcodes(documents[k].raw_content)]

WithContent(documents, compiled) ==
    [k \in DOMAIN documents |->
        [documents[k] EXCEPT !.content = compiled[k].elements]]

\* Site::render_to up to the update of the pages: the sections are
\* compiled and then updated, then the pages; a panic ends it where it is.
\* The hrefs of the model start neither with "@/" nor with '#', so
\* LinkReplacer leaves the content as it is.
render_to ==
    /\ site_status = "loaded"
    /\ LET section_content == Compiled(site_sections)
           page_content == Compiled(site_pages)
       IN  IF \E k \in DOMAIN site_sections : section_content[k].panicked
           THEN /\ site_status' = "panicked"
                /\ UNCHANGED <<site_sections, site_pages>>
           ELSE /\ site_sections' = WithContent(site_sections, section_content)
                /\ IF \E k \in DOMAIN site_pages : page_content[k].panicked
                   THEN /\ site_status' = "panicked"
                        /\ UNCHANGED site_pages
                   ELSE /\ site_status' = "rendered"
                        /\ site_pages' = WithContent(site_pages, page_content)
    /\ UNCHANGED <<scenario, aggregator_vars, markdown_vars, parse_vars,
                 metrics_vars, writer_vars>>

NextSite == render_to

InitShortcodes ==
    /\ scenario = "shortcodes"
    /\ NewAggregator /\ NewHeadingIdentifier /\ LoadedSite /\ NoFile
    /\ NoContent /\ NoWriter

InitRender ==
    /\ scenario = "render"
    /\ NewAggregator /\ NewHeadingIdentifier /\ LoadedSite /\ NoFile
    /\ NoContent /\ NoWriter

SpecShortcodes == InitShortcodes /\ [][NextSite]_vars

SpecRender == InitRender /\ [][NextSite]_vars

(***************************************************************************)
(* FileInfo::new, PagePath::from_file_path and Page::parse                 *)
(* (crates/razorbill/src/content/file_info.rs, page.rs), on whole paths.   *)
(*                                                                         *)
(* Here a path is the sequence of its components and a component the       *)
(* sequence of its character codes.                                        *)
(***************************************************************************)
MaxDepth == 4

\* '.'
Dot == 46

\* Path::strip_prefix: None when base is not a prefix of the path
StripNothing(path, base) == <<>>

StripPrefix(path, base) ==
    IF Len(base) <= Len(path) /\ SubSeq(path, 1, Len(base)) = base
    THEN <<SubSeq(path, Len(base) + 1, Len(path))>>
    ELSE <<>>

\* Path::parent: None for the empty path
PathParent(path) ==
    IF path = <<>> THEN <<>> ELSE <<SubSeq(path, 1, Len(path) - 1)>>

\* Option::unwrap_or
UnwrapOr(option, default) == IF option = <<>> THEN default ELSE option[1]

\* FileInfo::components: the unwrap of the parent panics on None
Components(root_path, path) ==
    LET parent == PathParent(UnwrapOr(StripPrefix(path, root_path), path))
    IN  [panicked |-> parent = <<>>, components |-> UnwrapOr(parent, <<>>)]

FileInfoNew(root_path, path) ==
    [path |-> path,
     parent |-> UnwrapOr(PathParent(path), root_path),
     components |-> Components(root_path, path).components,
     panicked |-> Components(root_path, path).panicked]

\* the index of the last '.' of a file name, 0 when it has none
RECURSIVE LastDot(_, _)
LastDot(name, i) ==
    IF i = 0 THEN 0
    ELSE IF name[i] = Dot THEN i
    ELSE LastDot(name, i - 1)

\* Path::file_stem: the file name up to its last '.', the whole name when
\* it has no '.' or only begins with one; None for the empty path
FileStem(path) ==
    IF path = <<>> THEN <<>>
    ELSE LET name == path[Len(path)]
             dot == LastDot(name, Len(name))
         IN  IF dot <= 1 THEN <<name>> ELSE <<SubSeq(name, 1, dot - 1)>>

\* Path::to_str: the components joined by '/'
RECURSIVE ToStr(_)
ToStr(path) ==
    IF path = <<>> THEN <<>>
    ELSE IF Len(path) = 1 THEN path[1]
    ELSE path[1] \o <<Slash>> \o ToStr(Tail(path))

\* PagePath::from_file_path: the route, or a panic of one of the unwraps
from_file_path(root_path, file_path) ==
    LET stripped == StripPrefix(file_path, root_path)
        parent == IF stripped = <<>> THEN <<>> ELSE PathParent(stripped[1])
        slug == IF stripped = <<>> THEN <<>> ELSE FileStem(stripped[1])
    IN  IF stripped = <<>> \/ parent = <<>> \/ slug = <<>>
        THEN [panicked |-> TRUE, route |-> <<>>]
        ELSE [panicked |-> FALSE,
              route |-> IF ToStr(parent[1]) = <<>>
                        THEN <<Slash>> \o slug[1]
                        ELSE <<Slash>> \o ToStr(parent[1]) \o <<Slash>>
                                 \o slug[1]]

\* Page::parse, as far as file, slug and path go
PageParse(root_path, filepath, front_matter_slug) ==
    LET info == FileInfoNew(root_path, filepath)
        path == from_file_path(root_path, info.path)
    IN  [panicked |-> info.panicked \/ path.panicked,
         file |-> info,
         slug |-> UnwrapOr(front_matter_slug, UnwrapOr(FileStem(filepath), <<>>)),
         path |-> path.route]

\* the arguments: content roots of one and of two components, directories
\* below them, and the files of a directory
DirNames == {<<97>>, <<98>>, <<99>>, <<100>>}

RECURSIVE DirsTo(_)
DirsTo(depth) ==
    IF depth = 0 THEN {<<>>}
    ELSE LET shorter == DirsTo(depth - 1)
         IN  shorter \cup {Append(d, n) : d \in shorter, n \in DirNames}

FileNames ==
    {<<95, 105, 110, 100, 101, 120, 46, 109, 100>>, <<112, 46, 109, 100>>}

Roots == {<< <<99>> >>, << <<115>>, <<111>> >>}

Slugs == {<<>>, << <<120>> >>}

ParseArgs ==
    {[root_path |-> r, path |-> base \o d \o <<f>>, slug |-> sl] :
        r \in Roots, base \in Roots \cup {<<>>}, d \in DirsTo(MaxDepth),
        f \in FileNames, sl \in Slugs}

\* FileInfo::new called on the arguments
new ==
    /\ file = <<>>
    /\ file' = <<FileInfoNew(args.root_path, args.path)>>
    /\ UNCHANGED <<scenario, aggregator_vars, markdown_vars, site_vars,
                   args, parsed_page, metrics_vars, writer_vars>>

\* Page::parse called on the arguments
parse ==
    /\ parsed_page = <<>>
    /\ parsed_page' = <<PageParse(args.root_path, args.path, args.slug)>>
    /\ UNCHANGED <<scenario, aggregator_vars, markdown_vars, site_vars,
                   args, file, metrics_vars, writer_vars>>

NextParse == new \/ parse

InitParse ==
    /\ scenario = "parse"
    /\ NewAggregator /\ NewHeadingIdentifier /\ EmptySite
    /\ NoContent /\ NoWriter
    /\ args \in ParseArgs
    /\ file = <<>>
    /\ parsed_page = <<>>

SpecParse == InitParse /\ [][NextParse]_vars

(***************************************************************************)
(* ReadingMetrics::for_content (crates/razorbill/src/content/               *)
(* reading_metrics.rs).                                                    *)
(*                                                                         *)
(* usize is scaled down to UsizeBits bits.  A content is the sequence of   *)
(* its character codes, letters and spaces.  An overflowing subtraction or *)
(* addition panics in a build with overflow checks and wraps in a build    *)
(* without them; a division by zero panics in both.                        *)
(***************************************************************************)
UsizeBits == 4
MaxContentLen == 6

\* ' '
Space == 32

UsizeModulus == 2 ^ UsizeBits

RECURSIVE WordsFrom(_, _)
\* the words that start at the i-th character or later: a word starts at a
\* letter that is the first character or follows a space
WordsFrom(content, i) ==
    IF i > Len(content) THEN 0
    ELSE (IF content[i] # Space /\ (i = 1 \/ content[i - 1] = Space)
          THEN 1 ELSE 0)
         + WordsFrom(content, i + 1)

\* content.unicode_words().count()
UnicodeWordsCount(content) == WordsFrom(content, 1)

\* (word_count + minimum_words_to_read) / wpm on wrapped operands
ReadTime(word_count, minimum_words_to_read, wpm) ==
    ((word_count + minimum_words_to_read) % UsizeModulus) \div wpm

\* ReadingMetrics::for_content(content, wpm) in a build with or without
\* overflow checks
for_content(content, wpm, overflow_checks) ==
    LET word_count == UnicodeWordsCount(content)
        minimum_words_to_read == (wpm - 1) % UsizeModulus
        overflows ==
            \/ wpm - 1 < 0
            \/ word_count + minimum_words_to_read >= UsizeModulus
    IN  IF wpm = 0 \/ (overflow_checks /\ overflows)
        THEN [panicked |-> TRUE, word_count |-> 0, read_time |-> 0]
        ELSE [panicked |-> FALSE, word_count |-> word_count,
              read_time |-> ReadTime(word_count, minimum_words_to_read, wpm)]

RECURSIVE Contents(_)
Contents(n) ==
    IF n = 0 THEN {<<>>}
    ELSE LET shorter == Contents(n - 1)
         IN  shorter \cup {Append(c, ch) : c \in shorter, ch \in {97, Space}}

\* the reading speeds a configuration can hold: every usize
ReadingSpeeds == 0..(UsizeModulus - 1)

\* for_content called on the arguments
measure ==
    /\ metrics = <<>>
    /\ metrics' = <<for_content(metrics_call.content, metrics_call.wpm,
                                metrics_call.overflow_checks)>>
    /\ UNCHANGED <<scenario, aggregator_vars, markdown_vars, site_vars,
                   parse_vars, metrics_call, writer_vars>>

NextMetrics == measure

InitMetrics ==
    /\ scenario = "metrics"
    /\ NewAggregator /\ NewHeadingIdentifier /\ EmptySite /\ NoFile
    /\ NoWriter
    /\ metrics_call \in [content : Contents(MaxContentLen),
                         wpm : ReadingSpeeds,
                         overflow_checks : BOOLEAN]
    /\ metrics = <<>>

SpecMetrics == InitMetrics /\ [][NextMetrics]_vars

(***************************************************************************)
(* HtmlElementWriter (crates/razorbill/src/markdown.rs): the stack machine *)
(* that turns the events of the Markdown parser into the element tree.     *)
(*                                                                         *)
(* Elements are the records of the shortcode part, a text the sequence of  *)
(* its pieces.  An event is [kind, tag, text]: tag is [name, arg] for      *)
(* Start and End, with arg the destination of a link or an image, the      *)
(* name of a footnote definition, the language of a code block or the      *)
(* alignments of a table; text is the text of a Text or Code event or the  *)
(* name of a footnote reference.  Links and images carry no title, a       *)
(* heading is of level 2 without id or classes, a list is unordered.       *)
(***************************************************************************)
\* escape_html_extended on one character
escape_html_extended(piece) ==
    IF piece = "'" THEN "&#x27;"
    ELSE IF piece = "/" THEN "&#x2F;"
    ELSE escape_html(piece)

\* escape_html, escape_html_extended and escape_href on a whole text
EscapeHtml(text) == [k \in 1..Len(text) |-> escape_html(text[k])]

EscapeHtmlExtended(text) ==
    [k \in 1..Len(text) |-> escape_html_extended(text[k])]

EscapeHref(text) == [k \in 1..Len(text) |-> escape_href(text[k])]

\* usize::to_string as pieces
NumberText(n) ==
    LET digits == <<"0", "1", "2", "3", "4", "5", "6", "7", "8", "9">>
        codes == to_string(n)
    IN  [k \in 1..Len(codes) |-> digits[codes[k] - Zero + 1]]

\* write without a parent: every element goes to the root list
WriteToRoot(self, element) ==
    [self EXCEPT !.elements = Append(@, element)]

\* fn write: the element becomes the last child of the top of the stack,
\* or the last root element when the stack is empty
write(self, element) ==
    IF self.current_element_stack # <<>>
    THEN [self EXCEPT
             !.current_element_stack[Len(self.current_element_stack)].children =
                 Append(@, element)]
    ELSE [self EXCEPT !.elements = Append(@, element)]

\* fn write_raw_html: the same with a text node
write_raw_html(self, html) == write(self, TextElement(html))

\* fn push
push(self, element) ==
    [self EXCEPT !.current_element_stack = Append(@, element)]

\* fn pop: nothing happens on an empty stack
pop(self) ==
    LET stack == self.current_element_stack
    IN  IF stack = <<>> THEN self
        ELSE write([self EXCEPT !.current_element_stack =
                                    SubSeq(stack, 1, Len(stack) - 1)],
                   stack[Len(stack)])

\* the footnote numbered anew at every sight
NumberedAnew(footnotes, name) ==
    MapInsert(footnotes, name, Cardinality(DOMAIN footnotes) + 1)

\* *self.footnotes.entry(name).or_insert(self.footnotes.len() + 1)
Numbered(footnotes, name) ==
    IF name \in DOMAIN footnotes THEN footnotes
    ELSE MapInsert(footnotes, name, Cardinality(DOMAIN footnotes) + 1)

\* the cell is a th whatever the table state
CellTagAlwaysHead(table_state) == "th"

\* Tag::TableCell => match self.table_state
CellTag(table_state) == IF table_state = "Head" THEN "th" ELSE "td"

\* fn start_tag
start_tag(self, tag) ==
    CASE tag.name = "Paragraph" -> push(self, HtmlElement("p", EmptyMap, <<>>))
      [] tag.name = "Heading" -> push(self, HtmlElement("h2", EmptyMap, <<>>))
      [] tag.name = "Table" ->
            push([self EXCEPT !.table_alignments = tag.arg],
                 HtmlElement("table", EmptyMap, <<>>))
      [] tag.name = "TableHead" ->
            push(push([self EXCEPT !.table_state = "Head",
                                   !.table_cell_index = 0],
                      HtmlElement("thead", EmptyMap, <<>>)),
                 HtmlElement("tr", EmptyMap, <<>>))
      [] tag.name = "TableRow" ->
            push([self EXCEPT !.table_cell_index = 0],
                 HtmlElement("tr", EmptyMap, <<>>))
      [] tag.name = "TableCell" ->
            push(self, HtmlElement(CellTag(self.table_state), EmptyMap, <<>>))
      [] tag.name = "BlockQuote" ->
            push(self, HtmlElement("blockquote", EmptyMap, <<>>))
      [] tag.name = "CodeBlock" ->
            IF tag.arg = <<>>
            THEN push(push(self, HtmlElement("pre", EmptyMap, <<>>)),
                      HtmlElement("code", EmptyMap, <<>>))
            ELSE LET language == EscapeHtml(tag.arg)
                     attrs == [a \in {"data-lang", "class"} |->
                                  IF a = "class"
                                  THEN <<"language-">> \o language
                                  ELSE language]
                 IN  push(push(self, HtmlElement("pre", attrs, <<>>)),
                          HtmlElement("code", attrs, <<>>))
      [] tag.name = "List" -> push(self, HtmlElement("ul", EmptyMap, <<>>))
      [] tag.name = "Item" -> push(self, HtmlElement("li", EmptyMap, <<>>))
      [] tag.name = "Emphasis" -> push(self, HtmlElement("em", EmptyMap, <<>>))
      [] tag.name = "Strong" ->
            push(self, HtmlElement("strong", EmptyMap, <<>>))
      [] tag.name = "Strikethrough" ->
            push(self, HtmlElement("del", EmptyMap, <<>>))
      [] tag.name = "Link" ->
            push(self, HtmlElement("a",
                     [a \in {"href"} |-> EscapeHref(tag.arg)], <<>>))
      [] tag.name = "Image" ->
            push(self, HtmlElement("img",
                     [a \in {"src"} |-> EscapeHref(tag.arg)], <<>>))
      [] tag.name = "FootnoteDefinition" ->
            LET footnotes == Numbered(self.footnotes, tag.arg[1])
                number == footnotes[tag.arg[1]]
            IN  write(push([self EXCEPT !.footnotes = footnotes],
                           HtmlElement("div",
                               [a \in {"class", "id"} |->
                                   IF a = "class" THEN <<"footnote-definition">>
                                   ELSE EscapeHtml(tag.arg)],
                               <<>>)),
                      HtmlElement("sup",
                          [a \in {"class"} |-> <<"footnote-definition-label">>],
                          <<TextElement(NumberText(number))>>))

\* fn end_tag
end_tag(self, tag) ==
    CASE tag.name \in {"Table", "CodeBlock"} -> pop(pop(self))
      [] tag.name = "TableHead" ->
            [push(pop(pop(self)), HtmlElement("tbody", EmptyMap, <<>>))
                EXCEPT !.table_state = "Body"]
      [] tag.name = "TableCell" ->
            [pop(self) EXCEPT !.table_cell_index = @ + 1]
      [] OTHER -> pop(self)

\* fn write_img_alt_text: the text is appended to the alt attribute of the
\* deepest img on the stack; found is what the function returns
write_img_alt_text(self, text) ==
    LET stack == self.current_element_stack
        images == {i \in 1..Len(stack) : stack[i].tag_name = "img"}
    IN  IF images = {} THEN [found |-> FALSE, self |-> self]
        ELSE LET image == CHOOSE i \in images : \A j \in images : j <= i
                 alt == IF "alt" \in DOMAIN stack[image].attrs
                        THEN stack[image].attrs["alt"] ELSE <<>>
             IN  [found |-> TRUE,
                  self |-> [self EXCEPT
                      !.current_element_stack[image].attrs =
                          MapInsert(@, "alt", alt \o EscapeHtml(text))]]

\* Event::Text: the escaped text becomes a child of the top of the stack,
\* if there is one, and the text is handed to write_img_alt_text
text_event(self, text) ==
    LET stack == self.current_element_stack
        inside_pre == \E i \in 1..Len(stack) : stack[i].tag_name = "pre"
        escaped == IF inside_pre THEN EscapeHtmlExtended(text)
                   ELSE EscapeHtml(text)
        extended ==
            IF stack # <<>>
            THEN [self EXCEPT
                     !.current_element_stack[Len(stack)].children =
                         Append(@, TextElement(escaped))]
            ELSE self
    IN  write_img_alt_text(extended, text).self

\* Event::Code
code_event(self, text) ==
    LET alt == write_img_alt_text(self, text)
    IN  IF alt.found THEN alt.self
        ELSE write(self, HtmlElement("code", EmptyMap,
                             <<TextElement(EscapeHtml(text))>>))

\* Event::FootnoteReference
footnote_reference(self, name) ==
    LET footnotes == Numbered(self.footnotes, name[1])
        number == footnotes[name[1]]
    IN  write([self EXCEPT !.footnotes = footnotes],
              HtmlElement("sup",
                  [a \in {"class"} |-> <<"footnote-reference">>],
                  <<HtmlElement("a",
                        [a \in {"href"} |-> <<"#">> \o EscapeHtml(name)],
                        <<TextElement(NumberText(number))>>)>>))

\* one turn of the loop of run; todo!() panics
handle(self, event) ==
    IF event.kind = "TaskListMarker" THEN [panicked |-> TRUE, self |-> self]
    ELSE [panicked |-> FALSE,
          self |->
            CASE event.kind = "Start" -> start_tag(self, event.tag)
              [] event.kind = "End" -> end_tag(self, event.tag)
              [] event.kind = "Text" -> text_event(self, event.text)
              [] event.kind = "Code" -> code_event(self, event.text)
              [] event.kind = "Html" -> write_raw_html(self, event.text)
              [] event.kind = "SoftBreak" -> write_raw_html(self, <<"\n">>)
              [] event.kind = "HardBreak" ->
                    write(self, HtmlElement("br", EmptyMap, <<>>))
              [] event.kind = "Rule" ->
                    write(self, HtmlElement("hr", EmptyMap, <<>>))
              [] event.kind = "FootnoteReference" ->
                    footnote_reference(self, event.text)]

(***************************************************************************)
(* The input of run: the events of md::Parser, well nested.                *)
(***************************************************************************)
MaxEvents == 8
MaxTableEvents == 18
MaxStack == 4
MaxCols == 2
MaxRows == 2

NoTag == [name |-> "", arg |-> <<>>]

Start(name, arg) ==
    [kind |-> "Start", tag |-> [name |-> name, arg |-> arg], text |-> <<>>]

End(tag) == [kind |-> "End", tag |-> tag, text |-> <<>>]

Event(kind, text) == [kind |-> kind, tag |-> NoTag, text |-> text]

\* the tags that are open after the events, outermost first
RECURSIVE OpenTags(_)
OpenTags(evs) ==
    IF evs = <<>> THEN <<>>
    ELSE LET before == OpenTags(SubSeq(evs, 1, Len(evs) - 1))
             event == evs[Len(evs)]
         IN  CASE event.kind = "Start" -> Append(before, event.tag)
               [] event.kind = "End" -> SubSeq(before, 1, Len(before) - 1)
               [] OTHER -> before

\* where the last Start of a tag of this name is
LastStart(evs, name) ==
    CHOOSE i \in 1..Len(evs) :
        /\ evs[i].kind = "Start" /\ evs[i].tag.name = name
        /\ \A j \in (i + 1)..Len(evs) :
              ~(evs[j].kind = "Start" /\ evs[j].tag.name = name)

\* how many events of this kind and tag name come after the i-th
CountSince(evs, i, kind, name) ==
    Cardinality({j \in (i + 1)..Len(evs) :
                    evs[j].kind = kind /\ evs[j].tag.name = name})

\* the text of a code block
CodeTexts == {<<"<", "/">>}

FootnoteNames == {<<"x">>, <<"y">>, <<"z">>}

\* the blocks the parser can open at the top level and inside a block
\* container
BlockEvents ==
    CASE scenario = "stack" ->
            {Start("Paragraph", <<>>), Start("BlockQuote", <<>>),
             Start("CodeBlock", <<"r">>), Start("List", <<>>)}
      [] scenario = "table" ->
            {Start("Table", [c \in 1..n |-> "None"]) : n \in 1..MaxCols}
      [] scenario = "image" -> {Start("Paragraph", <<>>)}
      [] scenario = "footnote" -> {Start("Paragraph", <<>>)}
      [] OTHER -> {}

\* the inline events of a paragraph, a cell or another inline container
InlineEvents ==
    CASE scenario = "stack" ->
            {Event("Text", <<"a">>), Event("Code", <<"c">>),
             Start("Emphasis", <<>>)}
      [] scenario = "table" -> {Event("Text", <<"a">>)}
      [] scenario = "image" ->
            {Event("Text", <<"<">>), Event("Code", <<"c">>),
             Start("Image", <<"u">>), Start("Emphasis", <<>>)}
      [] scenario = "footnote" ->
            {Event("FootnoteReference", n) : n \in FootnoteNames}
      [] OTHER -> {}

\* the events the parser can emit next after the events so far
NextEvents(evs) ==
    LET open == OpenTags(evs)
        top == IF open = <<>> THEN NoTag ELSE open[Len(open)]
        close == IF open = <<>> THEN {} ELSE {End(top)}
        Nested(set) ==
            {event \in set : event.kind = "Start" => Len(open) < MaxStack}
    IN  CASE top.name = "" ->
                BlockEvents
                \cup (IF scenario = "footnote"
                      THEN {Start("FootnoteDefinition", n) : n \in FootnoteNames}
                      ELSE {})
          [] top.name \in {"BlockQuote", "FootnoteDefinition"} ->
                Nested(BlockEvents) \cup close
          [] top.name = "List" -> Nested({Start("Item", <<>>)}) \cup close
          [] top.name = "Item" ->
                Nested(InlineEvents) \cup close
                \cup (IF evs[Len(evs)] = Start("Item", <<>>)
                      THEN {Event("TaskListMarker", <<>>)} ELSE {})
          [] top.name = "CodeBlock" ->
                {Event("Text", t) : t \in CodeTexts} \cup close
          [] top.name = "Table" ->
                LET from == LastStart(evs, "Table")
                IN  IF CountSince(evs, from, "End", "TableHead") = 0
                    THEN {Start("TableHead", <<>>)}
                    ELSE close
                         \cup (IF CountSince(evs, from, "Start", "TableRow")
                                  < MaxRows
                               THEN {Start("TableRow", <<>>)} ELSE {})
          [] top.name \in {"TableHead", "TableRow"} ->
                IF CountSince(evs, LastStart(evs, top.name),
                              "Start", "TableCell")
                       < Len(open[Len(open) - 1].arg)
                THEN {Start("TableCell", <<>>)}
                ELSE close
          [] OTHER -> Nested(InlineEvents) \cup close

\* how many events a document of the scenario has at most
EventLimit == IF scenario = "table" THEN MaxTableEvents ELSE MaxEvents

\* run takes the next event from its input and handles it
run_event(event) ==
    /\ writer_status = "running"
    /\ Len(events) < EventLimit
    /\ event \in NextEvents(events)
    /\ LET handled == handle(writer, event)
       IN  /\ writer' = handled.self
           /\ writer_status' = IF handled.panicked THEN "panicked"
                                ELSE "running"
    /\ events' = Append(events, event)
    /\ UNCHANGED <<scenario, aggregator_vars, markdown_vars, site_vars,
                   parse_vars, metrics_vars>>

\* the input is exhausted, every tag closed: run returns self.elements
run_return ==
    /\ writer_status = "running"
    /\ OpenTags(events) = <<>>
    /\ writer_status' = "returned"
    /\ UNCHANGED <<scenario, aggregator_vars, markdown_vars, site_vars,
                   parse_vars, metrics_vars, writer, events>>

NextWriter ==
    \/ \E event \in NextEvents(events) : run_event(event)
    \/ run_return

\* HtmlElementWriter::new(parser, components).run() about to start
Running ==
    /\ NewAggregator /\ NewHeadingIdentifier /\ EmptySite /\ NoFile
    /\ NoContent
    /\ writer = HtmlElementWriterNew
    /\ events = <<>>
    /\ writer_status = "running"

InitTables == scenario = "table" /\ Running

InitImages == scenario = "image" /\ Running

InitFootnotes == scenario = "footnote" /\ Running

InitWriter == scenario \in {"stack", "table", "image", "footnote"} /\ Running

SpecTables == InitTables /\ [][NextWriter]_vars

SpecImages == InitImages /\ [][NextWriter]_vars

SpecFootnotes == InitFootnotes /\ [][NextWriter]_vars

SpecWriter == InitWriter /\ [][NextWriter]_vars

(***************************************************************************)
(* Properties of the hierarchy built by aggregate.                         *)
(***************************************************************************)
\* how often x occurs in a list
Count(list, x) == Cardinality({i \in 1..Len(list) : list[i] = x})

IsPrefix(a, b) == Len(a) <= Len(b) /\ SubSeq(b, 1, Len(a)) = a

\* the index paths from the content root down to dir, root first
ChainOf(dir) == [i \in 1..(Len(dir) + 1) |-> JoinIndex(SubSeq(dir, 1, i - 1))]

\* the section at index path s is reached by the walk of the page with key
\* k: it lies at or above the page's directory, and every directory from
\* the page's own up to the one just below s has a transparent section
InChain(k, s) ==
    LET dir == Parent(s)
        parent == pages[k].file.parent
    IN  /\ IsPrefix(dir, parent)
        /\ \A n \in (Len(dir) + 1)..Len(parent) :
              /\ JoinIndex(SubSeq(parent, 1, n)) \in DOMAIN sections
              /\ sections[JoinIndex(SubSeq(parent, 1, n))].meta.transparent
        /\ JoinIndex(parent) \in DOMAIN sections

\* C1: a page under nested sections A (root) -> B -> C, all three present,
\* has ancestors [A, B, C] once aggregate has returned.
C1_AncestorsRootToParent ==
    status = "done" =>
        \A k \in DOMAIN pages :
            (/\ Len(pages[k].file.parent) = 2
             /\ \A i \in 1..3 :
                   ChainOf(pages[k].file.parent)[i] \in DOMAIN sections)
            => pages[k].ancestors = ChainOf(pages[k].file.parent)

\* C2: a page is in the child list of the section of its own directory and
\* of each higher section reached through transparent sections only, once
\* each, and in no other child list: the walk stops at the first section
\* that is not transparent.
C2_TransparentWalk ==
    status = "done" =>
        \A k \in DOMAIN pages : \A s \in DOMAIN sections :
            Count(sections[s].pages, k) = IF InChain(k, s) THEN 1 ELSE 0

\* C2 witness: a page under transparent a/b with a non-transparent parent a
\* and a root section: listed by a/b and a, not by the root.
C2_Witness ==
    /\ status = "done"
    /\ {<<IndexMd>>, <<97, IndexMd>>, <<97, 98, IndexMd>>} \subseteq DOMAIN sections
    /\ sections[<<97, 98, IndexMd>>].meta.transparent
    /\ ~sections[<<97, IndexMd>>].meta.transparent
    /\ <<97, 98, 112>> \in DOMAIN pages
    /\ Count(sections[<<97, 98, IndexMd>>].pages, <<97, 98, 112>>) = 1
    /\ Count(sections[<<97, IndexMd>>].pages, <<97, 98, 112>>) = 1
    /\ Count(sections[<<IndexMd>>].pages, <<97, 98, 112>>) = 0

\* C3: a page whose own directory has a section ends with ancestors in
\* root-to-parent order whose last entry is that section, transparent or not.
C3_LastAncestorIsParent ==
    status = "done" =>
        \A k \in DOMAIN pages :
            JoinIndex(pages[k].file.parent) \in DOMAIN sections =>
                LET anc == pages[k].ancestors
                IN  /\ anc # <<>>
                    /\ anc[Len(anc)] = JoinIndex(pages[k].file.parent)
                    /\ \A i \in 1..Len(anc) :
                          IsPrefix(Parent(anc[i]), pages[k].file.parent)
                    /\ \A i, j \in 1..Len(anc) :
                          i < j => Len(anc[i]) < Len(anc[j])

\* C4: every entry of every page's ancestors is a key of the section map
\* that aggregate returns.
C4_AncestorsAreSections ==
    status = "done" =>
        \A k \in DOMAIN pages : \A i \in 1..Len(pages[k].ancestors) :
            pages[k].ancestors[i] \in DOMAIN sections

\* the pages whose own directory has no section
Orphans(pgs) ==
    {k \in DOMAIN pgs : JoinIndex(pgs[k].file.parent) \notin DOMAIN sections}

\* C5: aggregate leaves an orphan page in the page map with no ancestors
\* and its template as it was, lists it in no section, and an orphan never
\* makes aggregate fail: it panics only if it also panics without the orphans.
C5_OrphanLeftAlone ==
    [][aggregate(iter_order') =>
            /\ status' = "done" =>
                 \A k \in Orphans(pages) :
                    /\ k \in DOMAIN pages'
                    /\ pages'[k].ancestors = <<>>
                    /\ pages'[k].meta.template = pages[k].meta.template
                    /\ \A s \in DOMAIN sections' :
                          Count(sections'[s].pages, k) = 0
            /\ status' = "panicked" =>
                 LET kept == DOMAIN pages \ Orphans(pages)
                     keep(k) == k \in kept
                 IN  AggregateOutcome(sections, [k \in kept |-> pages[k]],
                                      taxonomies,
                                      SelectSeq(iter_order', keep)).panicked
      ]_vars

\* C5 witness: an orphan under a/b whose higher directory a has a section,
\* after aggregate has returned.
C5_Witness ==
    /\ status = "done"
    /\ <<97, 98, IndexMd>> \notin DOMAIN sections
    /\ <<97, IndexMd>> \in DOMAIN sections
    /\ <<97, 98, 112>> \in DOMAIN pages
    /\ pages[<<97, 98, 112>>].ancestors = <<>>

(***************************************************************************)
(* Properties of the ordered lists.                                        *)
(***************************************************************************)
HasDate(k) == pages[k].meta.date # <<>>

\* the dated pages of a list of keys are in descending date order, equal
\* dates in ascending order of route
DatedInOrder(list) ==
    \A i, j \in 1..Len(list) :
        (i < j /\ HasDate(list[i]) /\ HasDate(list[j])) =>
            LET di == pages[list[i]].meta.date[1]
                dj == pages[list[j]].meta.date[1]
            IN  \/ di > dj
                \/ di = dj /\ ~StrLess(pages[list[j]].path, pages[list[i]].path)

\* the child lists of the sections with a sort key, and the term buckets
SortedLists ==
    {sections[s].pages : s \in {x \in DOMAIN sections :
                                    sections[x].meta.sort_by = "Date"}}
    \cup UNION {{taxonomies[t][x] : x \in DOMAIN taxonomies[t]} :
                   t \in DOMAIN taxonomies}

Undated(pgs, list) ==
    LET no_date(k) == pgs[k].meta.date = <<>>
    IN  SelectSeq(list, no_date)

\* result holds the keys of input, each as often, the undated ones after the
\* dated ones and in the order they have in input
PartitionOf(pgs, input, result) ==
    /\ \A k \in DOMAIN pgs : Count(result, k) = Count(input, k)
    /\ Len(result) = Len(input)
    /\ \A i, j \in 1..Len(result) :
          (pgs[result[i]].meta.date = <<>> /\ pgs[result[j]].meta.date # <<>>)
              => j < i
    /\ Undated(pgs, result) = Undated(pgs, input)

\* C7: each sorted child list and each term bucket that aggregate returns
\* is a permutation of the list that was sorted, with no undated page
\* before a dated one and the undated pages in their original order.
C7_SortPartition ==
    [][(status' = "done" /\ aggregate(iter_order')) =>
            LET placed == PlacePages(
                    [sections |-> sections, pages |-> pages, panicked |-> FALSE],
                    build_ancestors(sections), iter_order', 1)
            IN  /\ \A s \in DOMAIN sections :
                      sections[s].meta.sort_by = "Date" =>
                          PartitionOf(pages, placed.sections[s].pages,
                                      sections'[s].pages)
                /\ \A t \in DOMAIN taxonomies : \A x \in DOMAIN taxonomies[t] :
                      PartitionOf(pages, taxonomies[t][x], taxonomies'[t][x])
      ]_vars

\* C7 witness: a returned child list of a section sorted by date that holds
\* a dated page and two undated pages.
C7_Witness ==
    /\ status = "done"
    /\ \E s \in DOMAIN sections :
          /\ sections[s].meta.sort_by = "Date"
          /\ Len(Undated(pages, sections[s].pages)) = 2
          /\ Len(sections[s].pages) = 3

\* the lists into which the keys of list can be arranged
Arrangements(list) ==
    LET keys == {list[i] : i \in 1..Len(list)}
    IN  {b \in [1..Len(list) -> keys] :
            \A k \in keys : Count(b, k) = Count(list, k)}

\* C8: the lists aggregate returns are the same for every iteration order
\* of the page map and for every order in which the pages were added.
C8_OrderIndependent ==
    [][(status' = "done" /\ aggregate(iter_order')) =>
            /\ \A other \in Orders(DOMAIN pages) :
                  \A s \in DOMAIN sections :
                      sections[s].meta.sort_by = "Date" =>
                          AggregateOutcome(sections, pages, taxonomies,
                                           other).sections[s].pages
                              = sections'[s].pages
            /\ \A t \in DOMAIN taxonomies : \A x \in DOMAIN taxonomies[t] :
                  \A added \in Arrangements(taxonomies[t][x]) :
                      Reordered(sort_pages_by(Lookup(pages, added)))
                          = taxonomies'[t][x]
      ]_vars

(***************************************************************************)
(* Properties of the maps and of the taxonomy index.                       *)
(***************************************************************************)
\* C9: a bucket holds a key exactly as often as the page stored under that
\* key declares the bucket's term under the bucket's taxonomy.
C9_BucketsMatchDeclarations ==
    status = "done" =>
        \A t \in DOMAIN taxonomies : \A x \in DOMAIN taxonomies[t] :
            LET bucket == taxonomies[t][x]
            IN  \A i \in 1..Len(bucket) :
                    /\ bucket[i] \in DOMAIN pages
                    /\ t \in DOMAIN pages[bucket[i]].meta.taxonomies
                    /\ Count(bucket, bucket[i])
                         = Count(pages[bucket[i]].meta.taxonomies[t], x)

\* C10: add_section and add_page store the record under its file path,
\* replacing what was stored there, and change no other entry.
C10_LastWriteWins ==
    [][/\ \A section \in SectionInputs :
            add_section(section) =>
              /\ DOMAIN sections' = DOMAIN sections \cup {section.file.path}
              /\ sections'[section.file.path] = section
              /\ \A k \in DOMAIN sections \ {section.file.path} :
                    sections'[k] = sections[k]
       /\ \A page \in PageInputs :
            add_page(page) =>
              /\ DOMAIN pages' = DOMAIN pages \cup {page.file.path}
              /\ pages'[page.file.path] = page
              /\ \A k \in DOMAIN pages \ {page.file.path} :
                    pages'[k] = pages[k]
      ]_vars

\* C10 witness: a page path was added twice, first declaring term x and then
\* only term y, and a section and a second page are stored as well.
C10_Witness ==
    /\ status = "building"
    /\ DOMAIN pages = {<<112>>, <<113>>}
    /\ <<IndexMd>> \in DOMAIN sections
    /\ "x" \in DOMAIN taxonomies["tags"]
    /\ Count(taxonomies["tags"]["x"], <<112>>) = 1
    /\ pages[<<112>>].meta.taxonomies = [t \in {"tags"} |-> <<"y">>]

\* the terms a page declares under taxonomy t
DeclaredTerms(page, t) ==
    IF t \in DOMAIN page.meta.taxonomies
    THEN {page.meta.taxonomies[t][i] :
             i \in 1..Len(page.meta.taxonomies[t])}
    ELSE {}

\* C11: the taxonomy index always has exactly the configured taxonomy
\* names as keys; it starts with an empty term map for each of them, and
\* the term map of a configured taxonomy gains exactly the terms a page
\* added by add_page declares under that taxonomy, so that a term declared
\* under an unconfigured name is recorded nowhere; add_section and
\* aggregate leave the terms as they are.
C11_IndexKeysAreConfigured ==
    /\ taxonomies = [t \in TaxonomyDefinitions |-> EmptyMap]
    /\ [][/\ DOMAIN taxonomies' = TaxonomyDefinitions
          /\ \A page \in PageInputs :
                add_page(page) =>
                    \A t \in TaxonomyDefinitions :
                        DOMAIN taxonomies'[t]
                            = DOMAIN taxonomies[t] \cup DeclaredTerms(page, t)
          /\ (sections' # sections \/ status' # status) =>
                    \A t \in TaxonomyDefinitions :
                        DOMAIN taxonomies'[t] = DOMAIN taxonomies[t]
         ]_vars

\* C11 witness: aggregate has returned an index whose only key is the
\* configured taxonomy, with an empty term map, although a stored page
\* declares a term under the unconfigured name series.
C11_Witness ==
    /\ status = "done"
    /\ DOMAIN taxonomies = {"tags"}
    /\ taxonomies["tags"] = EmptyMap
    /\ \E p \in DOMAIN pages :
          /\ "series" \in DOMAIN pages[p].meta.taxonomies
          /\ Len(pages[p].meta.taxonomies["series"]) > 0

(***************************************************************************)
(* Properties of the heading-identifier pass and the table of contents.    *)
(***************************************************************************)
\* the slug a recorded heading's id was computed from
BaseSlug(heading) == slugify(Remove(heading.title, Quot))

\* how many headings before the i-th have the slug of the i-th
EarlierSame(i) ==
    Cardinality({j \in 1..(i - 1) :
                    BaseSlug(headings[j]) = BaseSlug(headings[i])})

\* C12: the headings of one document that produce the same slug s get, in
\* document order, the ids s, s-1, s-2, ...
C12_SuffixCountsCollisions ==
    \A i \in 1..Len(headings) :
        headings[i].id =
            IF EarlierSame(i) = 0
            THEN BaseSlug(headings[i])
            ELSE BaseSlug(headings[i]) \o <<Dash>> \o to_string(EarlierSame(i))

\* C12 witness: three headings with the slug s were recorded, with the ids
\* s, s-1 and s-2.
C12_Witness ==
    /\ Len(headings) = 3
    /\ \A i \in 1..3 : BaseSlug(headings[i]) = <<115>>
    /\ headings[1].title # headings[2].title
    /\ headings[1].id = <<115>>
    /\ headings[2].id = <<115, Dash, Zero + 1>>
    /\ headings[3].id = <<115, Dash, Zero + 2>>

\* C13: the ids recorded for the headings of one document are pairwise
\* distinct.
C13_IdsDistinct ==
    \A i, j \in 1..Len(headings) :
        i # j => headings[i].id # headings[j].id

\* C14: visiting a heading element that carries an id attribute leaves the
\* element as it is, records one more heading, and the recorded id is the
\* attribute's value.
C14_ExplicitIdKept ==
    [][\A element \in ElementInputs :
          (/\ visit(element)
           /\ element.tag_name \in HeadingTags
           /\ "id" \in DOMAIN element.attrs)
          => /\ elements' = Append(elements, element)
             /\ Len(headings') = Len(headings) + 1
             /\ headings'[Len(headings')].id = element.attrs["id"]
      ]_vars

\* the nearest earlier heading of a smaller level, 0 when there is none
NearestSmaller(list, i) ==
    LET smaller == {j \in 1..(i - 1) : list[j].level < list[i].level}
    IN  IF smaller = {} THEN 0
        ELSE CHOOSE j \in smaller : \A k \in smaller : k <= j

\* the members of a set of numbers in ascending order
RECURSIVE Ascending(_)
Ascending(set) ==
    IF set = {} THEN <<>>
    ELSE LET least == CHOOSE x \in set : \A y \in set : x <= y
         IN  <<least>> \o Ascending(set \ {least})

\* the tree below heading i when every heading hangs below the nearest
\* earlier heading of a smaller level
RECURSIVE TreeBelow(_, _)
TreeBelow(list, i) ==
    LET below == Ascending({j \in (i + 1)..Len(list) :
                               NearestSmaller(list, j) = i})
    IN  [list[i] EXCEPT
            !.children = [k \in 1..Len(below) |-> TreeBelow(list, below[k])]]

NestedByLevel(list) ==
    LET top == Ascending({j \in 1..Len(list) : NearestSmaller(list, j) = 0})
    IN  [k \in 1..Len(top) |-> TreeBelow(list, top[k])]

\* every child has a greater level than its parent
RECURSIVE ChildrenDeeper(_)
ChildrenDeeper(heading) ==
    \A k \in 1..Len(heading.children) :
        /\ heading.children[k].level > heading.level
        /\ ChildrenDeeper(heading.children[k])

Levels(list) == [i \in 1..Len(list) |-> list[i].level]

\* C15: the table of contents hangs every heading, in order, below the
\* nearest earlier heading of a strictly smaller level (the deepest such
\* heading of the last branch) or, when there is none, makes it a
\* top-level entry; every child is deeper than its parent; H2, H4, H2 gives
\* two top-level entries, the first with the H4 as only child.
C15_TocNesting ==
    pass = "done" =>
        /\ table_of_contents = NestedByLevel(headings)
        /\ \A k \in 1..Len(table_of_contents) :
              ChildrenDeeper(table_of_contents[k])
        /\ Levels(headings) = <<2, 4, 2>> =>
              /\ Len(table_of_contents) = 2
              /\ Levels(table_of_contents[1].children) = <<4>>
              /\ table_of_contents[1].children[1].children = <<>>
              /\ table_of_contents[2].children = <<>>

\* C15 witness: the table of contents of an H2, an H3 below it, an H4 below
\* that, an H3 that closes the H4's branch, and a new top-level H2.
C15_Witness ==
    /\ pass = "done"
    /\ Levels(headings) = <<2, 3, 4, 3, 2>>
    /\ Len(table_of_contents) = 2
    /\ Levels(table_of_contents[1].children) = <<3, 3>>
    /\ Levels(table_of_contents[1].children[1].children) = <<4>>

(***************************************************************************)
(* Properties of the shortcode pipeline and of render_to.                  *)
(***************************************************************************)
\* whether the placeholder token occurs in a text node or in an attribute
\* value of the elements
RECURSIVE HoldsPlaceholder(_)
HoldsPlaceholder(children) ==
    \E i \in 1..Len(children) :
        \/ IndexFrom(children[i].text, 1, SHORTCODE_PLACEHOLDER) # 0
        \/ \E a \in DOMAIN children[i].attrs :
              IndexFrom(children[i].attrs[a], 1, SHORTCODE_PLACEHOLDER) # 0
        \/ HoldsPlaceholder(children[i].children)

\* C16: when the raw text of a compiled page holds no literal placeholder
\* token, the content holds no placeholder token in any text node or
\* attribute value, and a page that is one call of a shortcode rendering the
\* text T compiles to one paragraph whose children are exactly [T].
C16_ShortcodeRoundTrip ==
    site_status = "rendered" =>
        \A k \in DOMAIN site_pages :
            LET raw == site_pages[k].raw_content
                content == site_pages[k].content
            IN  IndexFrom(raw, 1, SHORTCODE_PLACEHOLDER) = 0 =>
                    /\ ~HoldsPlaceholder(content)
                    /\ (/\ Len(raw) = 1
                        /\ raw[1] \in DOMAIN CallNames
                        /\ CallNames[raw[1]] \in DOMAIN Shortcodes)
                       => content = <<HtmlElement("p", EmptyMap,
                                        <<Shortcodes[CallNames[raw[1]]]>>)>>

\* how many times the placeholder token occurs in the text nodes
RECURSIVE TextPlaceholders(_)
TextPlaceholders(children) ==
    IF children = <<>> THEN 0
    ELSE LET child == Head(children)
         IN  Cardinality({i \in 1..Len(child.text) :
                             child.text[i] = SHORTCODE_PLACEHOLDER})
             + TextPlaceholders(child.children)
             + TextPlaceholders(Tail(children))

\* replace_shortcodes, run on the document, takes a call of an
\* unregistered name from the call list
ReachesUnregistered(raw) ==
    LET parsed == parse_document(raw)
        calls == parsed.shortcode_calls
        taken == TextPlaceholders(markdown(parsed.output))
    IN  /\ ~parsed.err
        /\ \E i \in 1..Len(calls) :
              i <= taken /\ calls[i].name \notin DOMAIN Shortcodes

\* C17: when replace_shortcodes reaches a call of an unregistered name in
\* a document, render_to ends in a panic and the document keeps the content
\* it had: no tree is stored for it.
C17_UnknownShortcodePanics ==
    [][render_to =>
          /\ \A k \in DOMAIN site_pages :
                ReachesUnregistered(site_pages[k].raw_content) =>
                    /\ site_status' = "panicked"
                    /\ site_pages'[k] = site_pages[k]
          /\ \A k \in DOMAIN site_sections :
                ReachesUnregistered(site_sections[k].raw_content) =>
                    /\ site_status' = "panicked"
                    /\ site_sections'[k] = site_sections[k]
      ]_vars

\* C17 witness: render_to panicked on a page that calls a registered
\* shortcode and then an unregistered one, and the page has no content.
C17_Witness ==
    /\ site_status = "panicked"
    /\ "p.md" \in DOMAIN site_pages
    /\ site_pages["p.md"].raw_content = <<"{{ hi() }}", "{{ no() }}">>
    /\ site_pages["p.md"].content = <<>>

\* C18: when the shortcode grammar rejects a document, render_to leaves
\* that document as it was, and unless another document fails it does not
\* panic and stores the compiled content of every other document.
C18_ParseErrorIsLocal ==
    [][render_to =>
          LET failed(d) == ~Parses(d.raw_content)
              fails(d) == markdown_with_shortcodes(d.raw_content).panicked
              compiled(d) ==
                  [d EXCEPT !.content =
                      markdown_with_shortcodes(d.raw_content).elements]
              all == {site_sections[k] : k \in DOMAIN site_sections}
                         \cup {site_pages[k] : k \in DOMAIN site_pages}
          IN  (\E d \in all : failed(d)) =>
                /\ \A k \in DOMAIN site_pages :
                      failed(site_pages[k]) => site_pages'[k] = site_pages[k]
                /\ \A k \in DOMAIN site_sections :
                      failed(site_sections[k])
                          => site_sections'[k] = site_sections[k]
                /\ (\A d \in all : fails(d) => failed(d)) =>
                      /\ site_status' # "panicked"
                      /\ \A k \in DOMAIN site_pages :
                            ~failed(site_pages[k]) =>
                                site_pages'[k] = compiled(site_pages[k])
                      /\ \A k \in DOMAIN site_sections :
                            ~failed(site_sections[k]) =>
                                site_sections'[k] = compiled(site_sections[k])
      ]_vars

(***************************************************************************)
(* Properties of FileInfo::new and of the route of a page.                 *)
(***************************************************************************)
\* C19: for a file below the root, FileInfo::new keeps the path, sets
\* parent to the path without the file name and components to the
\* components between the root and the file name: none for a file directly
\* in the root, [a, b, c, d] for root/a/b/c/d/_index.md.
C19_ComponentsBetweenRootAndFile ==
    (file # <<>> /\ IsPrefix(args.root_path, args.path)) =>
        LET root_path == args.root_path
            path == args.path
        IN  /\ ~file[1].panicked
            /\ file[1].path = path
            /\ file[1].parent = SubSeq(path, 1, Len(path) - 1)
            /\ file[1].components
                 = SubSeq(path, Len(root_path) + 1, Len(path) - 1)
            /\ Len(path) = Len(root_path) + 1 => file[1].components = <<>>
            /\ SubSeq(path, Len(root_path) + 1, Len(path) - 1)
                 = << <<97>>, <<98>>, <<99>>, <<100>> >>
               => file[1].components = << <<97>>, <<98>>, <<99>>, <<100>> >>

\* C19 witness: FileInfo::new("s/o", "s/o/a/b/c/d/_index.md") returned the
\* components [a, b, c, d] and the parent s/o/a/b/c/d.
C19_Witness ==
    /\ file # <<>>
    /\ args.root_path = << <<115>>, <<111>> >>
    /\ Len(args.path) = 7
    /\ file[1].components = << <<97>>, <<98>>, <<99>>, <<100>> >>
    /\ file[1].parent
         = << <<115>>, <<111>>, <<97>>, <<98>>, <<99>>, <<100>> >>
    /\ args.path[7] = <<95, 105, 110, 100, 101, 120, 46, 109, 100>>

\* the file name without its extension ".md"
Stem(name) == SubSeq(name, 1, Len(name) - 3)

\* C20: the route of a parsed page below the root is "/" + parent + "/" +
\* name, without the parent part for a file directly in the root; parent is
\* the directory relative to the root and name the front-matter slug when
\* one is set, else the file stem.
C20_RouteUsesSlug ==
    (parsed_page # <<>> /\ IsPrefix(args.root_path, args.path)) =>
        LET path == args.path
            parent == SubSeq(path, Len(args.root_path) + 1, Len(path) - 1)
            name == IF args.slug # <<>> THEN args.slug[1]
                    ELSE Stem(path[Len(path)])
        IN  /\ ~parsed_page[1].panicked
            /\ parsed_page[1].path =
                 IF parent = <<>> THEN <<Slash>> \o name
                 ELSE <<Slash>> \o ToStr(parent) \o <<Slash>> \o name

(***************************************************************************)
(* Completion, template inheritance and frame of aggregate.                *)
(***************************************************************************)
\* C22: aggregate runs to completion for every set of sections and pages:
\* no lookup of an ancestor key or of a page key panics, also when the
\* content root has no index section.
C22_AggregateCompletes == status # "panicked"

RECURSIVE InheritedTemplate(_, _)
\* the page_template of the nearest section at or above dir that sets one,
\* none when no section from dir up to the content root sets one
InheritedTemplate(secs, dir) ==
    IF /\ JoinIndex(dir) \in DOMAIN secs
       /\ secs[JoinIndex(dir)].meta.page_template # <<>>
    THEN secs[JoinIndex(dir)].meta.page_template
    ELSE IF dir = <<>> THEN <<>>
    ELSE InheritedTemplate(secs, Parent(dir))

\* C23: when aggregate returns, a placed page that had an explicit template
\* keeps it, and a placed page that had none carries the child-page template
\* of the nearest section from its parent towards the root that sets one,
\* or still none when no section on that chain sets one.
C23_TemplateInheritance ==
    [][(aggregate(iter_order') /\ status' = "done") =>
        \A k \in DOMAIN pages :
            JoinIndex(pages[k].file.parent) \in DOMAIN sections =>
                pages'[k].meta.template =
                    IF pages[k].meta.template # <<>>
                    THEN pages[k].meta.template
                    ELSE InheritedTemplate(sections, pages[k].file.parent)]_vars

\* C23 witness: aggregate has returned; the page a/b/p had no template of
\* its own, its parent a/b sets none, a and the root both set one: the page
\* carries the template of a.
C23_Witness ==
    /\ status = "done"
    /\ {<<IndexMd>>, <<97, IndexMd>>, <<97, 98, IndexMd>>} \subseteq DOMAIN sections
    /\ sections[<<IndexMd>>].meta.page_template = <<"root.html">>
    /\ sections[<<97, IndexMd>>].meta.page_template = <<"a.html">>
    /\ sections[<<97, 98, IndexMd>>].meta.page_template = <<>>
    /\ <<97, 98, 112>> \in DOMAIN pages
    /\ pages[<<97, 98, 112>>].meta.template = <<"a.html">>

\* where the key k stands in the iteration order
PositionIn(order, k) == CHOOSE i \in 1..Len(order) : order[i] = k

\* the keys of list stand in the order in which the page map was iterated
InPlacementOrder(list, order) ==
    \A i, j \in 1..Len(list) :
        i < j => PositionIn(order, list[i]) < PositionIn(order, list[j])

\* C24: aggregate changes on a page only its ancestors and its template,
\* the template only when it was unset, and on a section only its child
\* list; the page map and the section map keep their keys, and the child
\* list of a section without a sort key is left in placement order.
C24_AggregateFrame ==
    [][(aggregate(iter_order') /\ status' = "done") =>
        /\ DOMAIN pages' = DOMAIN pages
        /\ DOMAIN sections' = DOMAIN sections
        /\ \A k \in DOMAIN pages :
              /\ [pages'[k] EXCEPT !.ancestors = pages[k].ancestors,
                                   !.meta.template = pages[k].meta.template]
                     = pages[k]
              /\ pages[k].meta.template # <<>> =>
                     pages'[k].meta.template = pages[k].meta.template
        /\ \A s \in DOMAIN sections :
              /\ [sections'[s] EXCEPT !.pages = sections[s].pages] = sections[s]
              /\ sections[s].meta.sort_by = "None" =>
                     InPlacementOrder(sections'[s].pages, iter_order')]_vars

\* C24 witness: aggregate has returned; a section without a sort key lists
\* a dated page after an undated one, the order in which the two were
\* placed, and the dated page has got its ancestors.
C24_Witness ==
    /\ status = "done"
    /\ \E s \in DOMAIN sections :
          /\ sections[s].meta.sort_by = "None"
          /\ Len(sections[s].pages) = 2
          /\ pages[sections[s].pages[1]].meta.date = <<>>
          /\ pages[sections[s].pages[2]].meta.date # <<>>
          /\ pages[sections[s].pages[2]].ancestors # <<>>

(***************************************************************************)
(* Pairing of placeholders and calls; spans of parse_document.             *)
(***************************************************************************)
\* the texts of a tree in depth-first order, the href of a link before the
\* texts below the link
RECURSIVE TreeText(_)
TreeText(children) ==
    IF children = <<>> THEN <<>>
    ELSE LET child == Head(children)
         IN  child.text
             \o (IF "href" \in DOMAIN child.attrs
                 THEN child.attrs["href"] ELSE <<>>)
             \o TreeText(child.children)
             \o TreeText(Tail(children))

\* the source with every call replaced by the text its shortcode renders
RenderedInPlace(raw) ==
    [i \in 1..Len(raw) |->
        IF raw[i] \in DOMAIN CallNames
        THEN Shortcodes[CallNames[raw[i]]].text[1]
        ELSE raw[i]]

\* every call of the source names a registered shortcode, and the source
\* holds neither a malformed call nor the literal placeholder token
PlainCalls(raw) ==
    \A i \in 1..Len(raw) :
        /\ raw[i] \in DOMAIN CallNames => CallNames[raw[i]] \in DOMAIN Shortcodes
        /\ raw[i] # Malformed
        /\ raw[i] # SHORTCODE_PLACEHOLDER

\* C25: the k-th call of the source is rendered at the position of its own
\* placeholder, the literal text around it kept in order, also when a call
\* is the destination of a link: the texts and hrefs of the compiled tree,
\* read depth-first, are those of the source compiled with each call
\* replaced by its rendering.
C25_CallsPairedInSourceOrder ==
    site_status = "rendered" =>
        \A k \in DOMAIN site_pages :
            PlainCalls(site_pages[k].raw_content) =>
                TreeText(site_pages[k].content)
                    = TreeText(markdown(RenderedInPlace(
                                            site_pages[k].raw_content)))

\* the byte offset at which the i-th piece of the text starts
RECURSIVE Offset(_, _)
Offset(output, i) ==
    IF i = 1 THEN 0 ELSE Offset(output, i - 1) + ByteLen(output[i - 1])

\* the slice of the text at the span is the placeholder token
SliceIsPlaceholder(output, span) ==
    /\ span.end - span.start = PlaceholderLen
    /\ \E i \in 1..Len(output) :
          /\ Offset(output, i) = span.start
          /\ output[i] = SHORTCODE_PLACEHOLDER

\* the call expressions of a document, in source order
CallsOf(document) ==
    SelectSeq(document, LAMBDA piece : piece \in DOMAIN CallNames)

\* C26: for every document that parses, parse_document returns the text
\* with each call expression replaced by the placeholder token and one call
\* per call expression in source order; the slice of the returned text at
\* each call's span is the placeholder token, and the spans are strictly
\* increasing and pairwise disjoint.
C26_SpansInOutputCoordinates ==
    \A k \in DOMAIN site_pages :
        LET document == site_pages[k].raw_content
            res == parse_document(document)
            calls == res.shortcode_calls
        IN  Parses(document) =>
              /\ ~res.err
              /\ res.output =
                     [i \in 1..Len(document) |->
                         IF document[i] \in DOMAIN CallNames
                         THEN SHORTCODE_PLACEHOLDER ELSE document[i]]
              /\ Len(calls) = Len(CallsOf(document))
              /\ \A i \in 1..Len(calls) :
                    /\ calls[i].name = CallNames[CallsOf(document)[i]]
                    /\ SliceIsPlaceholder(res.output, calls[i].span)
              /\ \A i, j \in 1..Len(calls) :
                    i < j => calls[i].span.end <= calls[j].span.start

\* C26 witness: a rendered page whose source is two calls in a row; the
\* spans are 0..23 and 23..46.
C26_Witness ==
    /\ site_status = "rendered"
    /\ \E k \in DOMAIN site_pages :
          /\ site_pages[k].raw_content = <<"{{ hi() }}", "{{ yo() }}">>
          /\ LET calls == parse_document(site_pages[k].raw_content).shortcode_calls
             IN  /\ calls[1].span = [start |-> 0, end |-> PlaceholderLen]
                 /\ calls[2].span = [start |-> PlaceholderLen,
                                     end |-> 2 * PlaceholderLen]

(***************************************************************************)
(* Reading time.                                                           *)
(***************************************************************************)
\* C21: for wpm >= 1, for_content returns read_time = the ceiling of
\* word_count / wpm, the least t with t * wpm >= word_count: 0 for no
\* word, 1 for 1 to wpm words.
C21_ReadTimeIsCeiling ==
    (metrics # <<>> /\ metrics_call.wpm >= 1) =>
        LET words == UnicodeWordsCount(metrics_call.content)
            t == metrics[1].read_time
        IN  /\ ~metrics[1].panicked
            /\ metrics[1].word_count = words
            /\ t * metrics_call.wpm >= words
            /\ \A u \in 0..(t - 1) : u * metrics_call.wpm < words
            /\ words = 0 => t = 0
            /\ words \in 1..metrics_call.wpm => t = 1

(***************************************************************************)
(* The stack discipline of HtmlElementWriter.                              *)
(***************************************************************************)
Last(seq) == seq[Len(seq)]

Front(seq) == SubSeq(seq, 1, Len(seq) - 1)

\* how many elements the opening of a tag pushes
Pushes(tag) == IF tag.name \in {"TableHead", "CodeBlock"} THEN 2 ELSE 1

\* how many elements the closing of a tag pops
Pops(tag) ==
    IF tag.name \in {"Table", "TableHead", "CodeBlock"} THEN 2 ELSE 1

\* <<stack, root list>> after the top of the stack has been taken off n
\* times, each time attached as the last child of the new top, or to the
\* root list when the stack has become empty
RECURSIVE Popped(_, _, _)
Popped(stack, roots, n) ==
    IF n = 0 THEN <<stack, roots>>
    ELSE IF Len(stack) = 1 THEN Popped(<<>>, Append(roots, stack[1]), n - 1)
    ELSE Popped([Front(stack) EXCEPT ![Len(stack) - 1].children =
                                         Append(@, Last(stack))],
                roots, n - 1)

\* the step run has just taken follows the stack discipline
StackDiscipline ==
    LET event == Last(events')
        stack == writer.current_element_stack
        after == Popped(stack, writer.elements, Pops(event.tag))
    IN  CASE event.kind = "Start" ->
                /\ Len(writer'.current_element_stack)
                      = Len(stack) + Pushes(event.tag)
                /\ SubSeq(writer'.current_element_stack, 1, Len(stack)) = stack
                /\ writer'.elements = writer.elements
          [] event.kind = "End" ->
                /\ Len(stack) >= Pops(event.tag)
                /\ writer'.elements = after[2]
                /\ writer'.current_element_stack =
                      IF event.tag.name = "TableHead"
                      THEN Append(after[1], HtmlElement("tbody", EmptyMap, <<>>))
                      ELSE after[1]
          [] OTHER -> TRUE

\* the height of the element stack after the events
RECURSIVE Height(_)
Height(evs) ==
    IF evs = <<>> THEN 0
    ELSE LET event == Last(evs)
             below == Height(Front(evs))
         IN  CASE event.kind = "Start" -> below + Pushes(event.tag)
               [] event.kind = "End" ->
                     below - Pops(event.tag)
                     + (IF event.tag.name = "TableHead" THEN 1 ELSE 0)
               [] OTHER -> below

\* the tag name of the element a tag opens first
TagName(tag, open) ==
    CASE tag.name = "Paragraph" -> "p"
      [] tag.name = "BlockQuote" -> "blockquote"
      [] tag.name = "CodeBlock" -> "pre"
      [] tag.name = "List" -> "ul"
      [] tag.name = "Item" -> "li"
      [] tag.name = "Emphasis" -> "em"
      [] tag.name = "Image" -> "img"
      [] tag.name = "Table" -> "table"
      [] tag.name = "TableHead" -> "thead"
      [] tag.name = "TableRow" -> "tr"
      [] tag.name = "TableCell" ->
            IF Last(open).name = "TableHead" THEN "th" ELSE "td"
      [] tag.name = "FootnoteDefinition" -> "div"

\* the elements the event brings into the tree, each with its depth, when
\* it comes after the events before
Brings(before, event) ==
    LET depth == Height(before)
        open == OpenTags(before)
        first == <<TagName(event.tag, open), depth>>
    IN  CASE event.kind = "Start" ->
                CASE event.tag.name = "TableHead" ->
                        <<first, <<"tr", depth + 1>>>>
                  [] event.tag.name = "CodeBlock" ->
                        <<first, <<"code", depth + 1>>>>
                  [] event.tag.name = "FootnoteDefinition" ->
                        <<first, <<"sup", depth + 1>>>>
                  [] OTHER -> <<first>>
          [] event.kind = "End" ->
                IF event.tag.name = "TableHead"
                THEN <<<<"tbody", depth - 2>>>> ELSE <<>>
          [] event.kind = "Code" ->
                IF \E i \in 1..Len(open) : open[i].name = "Image"
                THEN <<>> ELSE <<<<"code", depth>>>>
          [] event.kind = "FootnoteReference" ->
                <<<<"sup", depth>>, <<"a", depth + 1>>>>
          [] OTHER -> <<>>

\* the elements of a document in the order in which its events bring them
RECURSIVE InDocumentOrder(_)
InDocumentOrder(evs) ==
    IF evs = <<>> THEN <<>>
    ELSE InDocumentOrder(Front(evs)) \o Brings(Front(evs), Last(evs))

\* the elements of a tree, depth-first, each with its depth
RECURSIVE Preorder(_, _)
Preorder(children, depth) ==
    IF children = <<>> THEN <<>>
    ELSE LET child == Head(children)
         IN  (IF child.kind = "Html"
              THEN <<<<child.tag_name, depth>>>>
                   \o Preorder(child.children, depth + 1)
              ELSE <<>>)
             \o Preorder(Tail(children), depth)

\* when run has returned the stack is empty and the output tree holds the
\* elements of the document, each once, in document order and at the depth
\* at which it was opened
TreeComplete ==
    writer_status = "returned" =>
        /\ writer.current_element_stack = <<>>
        /\ Preorder(writer.elements, 0) = InDocumentOrder(events)

\* C27: every tag-open pushes (thead and tr for a table head, pre and code
\* for a code block), every tag-close pops the top and attaches it as the
\* last child of the new top, or to the root list when the stack is empty
\* (the end of a table head pops two and pushes tbody); when run returns
\* the stack is empty and every element opened is in the output tree
\* exactly once, in document order.
C27_StackMachine ==
    /\ []TreeComplete
    /\ [][events' # events => StackDiscipline]_vars

\* C27 witness: run has returned from a table with one head cell and one
\* body row: table > (thead > tr > th, tbody > tr > td).
C27_Witness ==
    /\ writer_status = "returned"
    /\ Preorder(writer.elements, 0) =
          <<<<"table", 0>>, <<"thead", 1>>, <<"tr", 2>>, <<"th", 3>>,
            <<"tbody", 1>>, <<"tr", 2>>, <<"td", 3>>>>

(***************************************************************************)
(* Image alt text.                                                         *)
(***************************************************************************)
\* the places on the stack that hold an img
OpenImages(stack) == {i \in 1..Len(stack) : stack[i].tag_name = "img"}

\* the alt attribute of an element, empty when it has none
Alt(element) ==
    IF "alt" \in DOMAIN element.attrs THEN element.attrs["alt"] ELSE <<>>

\* C28: while an image is open on the stack, the content of a Text or Code
\* event is appended to the alt attribute of the deepest open image and
\* no node is added to the tree; with no image open the content goes to
\* its normal place: a text node under the top of the stack, a code
\* element written to the top of the stack or to the root list.
C28_AltTextNotInTree ==
    [][(events' # events /\ Last(events').kind \in {"Text", "Code"}) =>
        LET event == Last(events')
            stack == writer.current_element_stack
            images == OpenImages(stack)
            escaped == EscapeHtml(event.text)
        IN  IF images # {}
            THEN LET deepest == CHOOSE i \in images : \A j \in images : j <= i
                 IN  writer' =
                         [writer EXCEPT
                             !.current_element_stack[deepest].attrs =
                                 MapInsert(@, "alt",
                                           Alt(stack[deepest]) \o escaped)]
            ELSE IF event.kind = "Text"
            THEN writer' =
                     [writer EXCEPT
                         !.current_element_stack[Len(stack)].children =
                             Append(@, TextElement(escaped))]
            ELSE writer' = write(writer, HtmlElement("code", EmptyMap,
                                             <<TextElement(escaped)>>))
      ]_vars

(***************************************************************************)
(* Tables.                                                                 *)
(***************************************************************************)
\* the tag names of the n topmost elements of the stack, the top last
TopNames(stack, n) ==
    [i \in 1..n |-> stack[Len(stack) - n + i].tag_name]

\* how many events of this kind and tag name the events hold
CountOf(evs, kind, name) == CountSince(evs, 0, kind, name)

\* C29: in a document of tables in sequence, a cell opened in the header of
\* a table is a th inside thead > tr, a cell opened in a later row is a td
\* inside a tr under tbody, the flag is Head when a header has just
\* started, also that of a later table, and the cell index is 0 when a
\* header or a row has just started.
C29_TableCells ==
    events # <<>> =>
        LET event == Last(events)
            open == OpenTags(events)
            stack == writer.current_element_stack
        IN  /\ (event.kind = "Start" /\ event.tag.name = "TableCell") =>
                  /\ Len(stack) >= 4
                  /\ TopNames(stack, 4) =
                        IF open[Len(open) - 1].name = "TableHead"
                        THEN <<"table", "thead", "tr", "th">>
                        ELSE <<"table", "tbody", "tr", "td">>
            /\ (event.kind = "Start" /\ event.tag.name = "TableHead") =>
                  /\ writer.table_state = "Head"
                  /\ writer.table_cell_index = 0
            /\ (event.kind = "Start" /\ event.tag.name = "TableRow") =>
                  /\ writer.table_state = "Body"
                  /\ writer.table_cell_index = 0

\* C29 witness: the header of a second table has just started after a
\* first table with a body row of two cells; the flag is Head again and
\* the cell index 0.
C29_Witness ==
    /\ events # <<>>
    /\ Last(events) = Start("TableHead", <<>>)
    /\ CountOf(events, "Start", "Table") = 2
    /\ CountOf(events, "End", "TableRow") = 1
    /\ CountOf(events, "End", "TableCell") = 4
    /\ writer.table_state = "Head"
    /\ writer.table_cell_index = 0

(***************************************************************************)
(* Footnote numbers.                                                       *)
(***************************************************************************)
\* the footnote name the event shows, none for other events
Shown(event) ==
    IF event.kind = "FootnoteReference" THEN <<event.text[1]>>
    ELSE IF event.kind = "Start" /\ event.tag.name = "FootnoteDefinition"
         THEN <<event.tag.arg[1]>>
    ELSE <<>>

\* the distinct footnote names of the first n events
SeenBy(evs, n) ==
    {name \in {f[1] : f \in FootnoteNames} :
        \E i \in 1..n : Shown(evs[i]) = <<name>>}

\* where a seen name is shown first
FirstSight(evs, name) ==
    CHOOSE i \in 1..Len(evs) :
        /\ Shown(evs[i]) = <<name>>
        /\ \A j \in 1..(i - 1) : Shown(evs[j]) # <<name>>

\* 1 + the number of distinct names seen before the name's first sight
NumberOnFirstSight(evs, name) ==
    1 + Cardinality(SeenBy(evs, FirstSight(evs, name) - 1))

\* the number the element written for the last event shows
ShownNumber ==
    LET stack == writer.current_element_stack
    IN  IF Last(events).kind = "FootnoteReference"
        THEN LET siblings == IF stack = <<>> THEN writer.elements
                             ELSE Last(stack).children
             IN  Last(siblings).children[1].children[1].text
        ELSE Last(stack).children[1].children[1].text

\* C30: each footnote name has the number 1 + the number of distinct names
\* seen before its first sight, by a reference or by a definition; every
\* reference and definition shows the number of its name; the map from
\* names to numbers is a bijection onto 1..n.
C30_FootnoteNumbers ==
    LET seen == SeenBy(events, Len(events))
    IN  /\ DOMAIN writer.footnotes = seen
        /\ \A name \in seen :
              writer.footnotes[name] = NumberOnFirstSight(events, name)
        /\ {writer.footnotes[name] : name \in seen} = 1..Cardinality(seen)
        /\ \A a, b \in seen :
              writer.footnotes[a] = writer.footnotes[b] => a = b
        /\ (events # <<>> /\ Shown(Last(events)) # <<>>) =>
              ShownNumber =
                  NumberText(NumberOnFirstSight(events, Shown(Last(events))[1]))

\* C30 witness: after references to y and x the definition of x has just
\* been opened and shows 2; y has the number 1.
C30_Witness ==
    /\ Len(events) = 5
    /\ events[2] = Event("FootnoteReference", <<"y">>)
    /\ events[3] = Event("FootnoteReference", <<"x">>)
    /\ events[5] = Start("FootnoteDefinition", <<"x">>)
    /\ writer.footnotes = [name \in {"x", "y"} |-> IF name = "y" THEN 1 ELSE 2]
    /\ ShownNumber = <<"2">>

====
